---- MODULE Spec2Model ----
(***************************************************************************)
(* A model of the alma-ssz differential SSZ fuzzer:                        *)
(*   - the in-process round-trip oracle (fuzzer/in_process_fuzzer.go),     *)
(*   - the reference SSZ codec (internal/sszref).                          *)
(* The system under test (fastssz and the code it generates) is the        *)
(* environment: every call into it may return, fail or panic, and the      *)
(* values it returns are drawn from small sets.                            *)
(***************************************************************************)
EXTENDS Integers, Sequences, FiniteSets, TLC

VARIABLES
    \* InProcessFuzzer fields
    globalSeenCIDs, currentCoverage, lastNewCoverage, externalOracle, targetPrototype,
    \* the call in progress and the position inside it
    op, pc, stage,
    \* arguments of the call in progress
    sszBytes, obj,
    \* named results of Execute / ExecuteWithObject / PreflightChecks
    signature, bugTriggered, newCoverageFound, trace,
    \* local of applyReferenceChecks
    bugFound,
    \* TRUE when a panic left the oracle entry point and reached its caller
    propagated,
    \* what the system under test did in the call in progress
    sut,
    \* what a strict decode of sszBytes (spec section 4.1) answers
    refDecode,
    \* reference codec: the input and the outputs of the call
    codec,
    \* merkleizeChunks: the chunks, the limit and the result of the call
    merkle,
    \* multiproofs: the tree, the leaf indices, the proof built and the verdict
    proof,
    \* rl.ApplyMutations: the encoding, the plan and the buffer returned
    mutation,
    \* spec.GenericAnalyzer: the field analysed and the domains produced
    domains,
    \* schemas.DebugUnion.UnmarshalSSZ: the input and what the decode answered
    union,
    \* oracle.RoundTrip: the input, the target and the error returned
    roundtrip,
    \* RunUntilBugMetrics / RunSchemaValidationMetrics: the loop and its result
    campaign,
    \* Canonicalize: the receiver before and after, and the value returned
    canon,
    \* tracer: Buffer, Index and the calls of the goroutines that use them
    ring,
    \* pyssz.Oracle: the mutex, the pipes of the helper process and the callers
    bridge,
    \* rl.EncodingContext: the domains it was built from and the call made on it
    actionSpace

oracleVars == <<globalSeenCIDs, currentCoverage, lastNewCoverage, externalOracle,
                targetPrototype, op, pc, stage, sszBytes, obj, signature, bugTriggered,
                newCoverageFound, trace, bugFound, propagated, sut, refDecode>>

vars == <<globalSeenCIDs, currentCoverage, lastNewCoverage, externalOracle,
          targetPrototype, op, pc, stage, sszBytes, obj, signature, bugTriggered,
          newCoverageFound, trace, bugFound, propagated, sut, refDecode, codec,
          merkle, proof, mutation, domains, union, roundtrip, campaign, canon,
          ring, bridge, actionSpace>>

\* the components beside the fuzzer, each the input and the results of its calls
auxVars == <<codec, merkle, proof, mutation, domains, union, roundtrip, campaign, canon,
            ring, bridge, actionSpace>>

\* every component but x is not in use
Idle(x) ==
    /\ IF x = "codec" THEN TRUE ELSE codec = <<>>
    /\ IF x = "merkle" THEN TRUE ELSE merkle = <<>>
    /\ IF x = "proof" THEN TRUE ELSE proof = <<>>
    /\ IF x = "mutation" THEN TRUE ELSE mutation = <<>>
    /\ IF x = "domains" THEN TRUE ELSE domains = <<>>
    /\ IF x = "union" THEN TRUE ELSE union = <<>>
    /\ IF x = "roundtrip" THEN TRUE ELSE roundtrip = <<>>
    /\ IF x = "campaign" THEN TRUE ELSE campaign = <<>>
    /\ IF x = "canon" THEN TRUE ELSE canon = <<>>
    /\ IF x = "ring" THEN TRUE ELSE ring = <<>>
    /\ IF x = "bridge" THEN TRUE ELSE bridge = <<>>
    /\ IF x = "actionSpace" THEN TRUE ELSE actionSpace = <<>>

\* a step of component x leaves the other components alone
Frame(x) ==
    /\ IF x = "codec" THEN TRUE ELSE UNCHANGED codec
    /\ IF x = "merkle" THEN TRUE ELSE UNCHANGED merkle
    /\ IF x = "proof" THEN TRUE ELSE UNCHANGED proof
    /\ IF x = "mutation" THEN TRUE ELSE UNCHANGED mutation
    /\ IF x = "domains" THEN TRUE ELSE UNCHANGED domains
    /\ IF x = "union" THEN TRUE ELSE UNCHANGED union
    /\ IF x = "roundtrip" THEN TRUE ELSE UNCHANGED roundtrip
    /\ IF x = "campaign" THEN TRUE ELSE UNCHANGED campaign
    /\ IF x = "canon" THEN TRUE ELSE UNCHANGED canon
    /\ IF x = "ring" THEN TRUE ELSE UNCHANGED ring
    /\ IF x = "bridge" THEN TRUE ELSE UNCHANGED bridge
    /\ IF x = "actionSpace" THEN TRUE ELSE UNCHANGED actionSpace

-----------------------------------------------------------------------------
(* Bounds of the model *)

\* coverage ids recorded by the tracer are 1..MaxCID
MaxCID == 2
\* a trace holds at most MaxTraceLen entries
MaxTraceLen == 2

-----------------------------------------------------------------------------
(* Small input sets *)

\* raw inputs and re-encodings
ByteStrings == {<<1>>, <<1, 0>>}

\* 32-byte roots returned by the SUT's HashTreeRoot, kept abstract
Roots == {"r1", "r2"}

\* results of one call into the SUT
Outcomes == {"ok", "err", "panic"}

Traces == UNION {[1..n -> 1..MaxCID] : n \in 0..MaxTraceLen}

\* what a strict reference decode answers for the input
RefDecodeOutcomes == {"ok", "err"}

\* target types the fuzzer is built for: whether the type has the fastssz
\* methods, a Canonicalize method, a slice of pointers, a settable scalar,
\* a slice with an ssz-max tag
TargetPrototypes ==
    { [ssz |-> TRUE,  canonicalizer |-> TRUE,  ptrSlice |-> TRUE,  minLen |-> TRUE,  maxList |-> TRUE],
      [ssz |-> TRUE,  canonicalizer |-> FALSE, ptrSlice |-> FALSE, minLen |-> TRUE,  maxList |-> FALSE],
      [ssz |-> FALSE, canonicalizer |-> FALSE, ptrSlice |-> FALSE, minLen |-> FALSE, maxList |-> FALSE] }

\* a decoded target: Target, a Bitvector4 held in a [1]byte, and Data, a byte
\* array of plain data (the schemas' [32]byte roots, two bytes here)
TargetValues == [Target : {1, 17}, Data : {<<0, 0>>, <<192, 0>>}]

ZeroTarget == [Target |-> 0, Data |-> <<0, 0>>]

\* objects handed to the reference checks: nil, or a value with or without
\* the fastssz methods, that the reference codec encodes / hashes or rejects
Objects == [kind : {"full", "bare"}, refMarshalOK : BOOLEAN, refRootOK : BOOLEAN]

NilObject == [kind |-> "nil", refMarshalOK |-> FALSE, refRootOK |-> FALSE]

BugKindNames ==
    { "Panic", "MarshalPanic", "HashTreeRootPanic", "BitvectorDirtyPadding",
      "SemanticMismatch", "RoundTripMismatch", "SizeSSZPanic", "ReferenceMarshalError",
      "ReferenceMarshalMismatch", "ReferenceHTRError", "ReferenceHTRMismatch",
      "ProofPanic", "ProofTreeError", "ProofTreeMismatch", "MultiproofError",
      "MultiproofInvalid", "MultiproofVerifyMismatch", "ExternalDecodeError",
      "ExternalRoundTripMismatch", "ExternalHTRMismatch", "MaxLenBypass", "MaxLenReject" }

-----------------------------------------------------------------------------
(* feedback.RuntimeSignature *)

NewRuntimeSignature ==
    [ RoundtripSuccessCount |-> 0, NonBugErrorCount |-> 0, BugFoundCount |-> 0,
      BugKinds |-> [k \in BugKindNames |-> 0] ]

\* the counter set and the kind left as it is
SetBugNoKind(sig, kind) == [sig EXCEPT !.BugFoundCount = 1]

\* signature.BugFoundCount = 1; signature.BugKinds[kind]++
SetBug(sig, kind) == [sig EXCEPT !.BugFoundCount = 1, !.BugKinds[kind] = @ + 1]

\* signature.BugFoundCount++; signature.BugKinds[kind]++
IncBug(sig, kind) == [sig EXCEPT !.BugFoundCount = @ + 1, !.BugKinds[kind] = @ + 1]

\* signature.NonBugErrorCount = 1
SetNonBug(sig) == [sig EXCEPT !.NonBugErrorCount = 1]

\* signature.NonBugErrorCount++
IncNonBug(sig) == [sig EXCEPT !.NonBugErrorCount = @ + 1]

SetSuccess(sig) == [sig EXCEPT !.RoundtripSuccessCount = 1]

NoSut ==
    [ unmarshal |-> "none", decoded |-> ZeroTarget, marshal |-> "none", reencoded |-> <<>>,
      reUnmarshal |-> "none", reHash |-> "none", reHashVal |-> "r1", canon |-> "none",
      origHash |-> "none", origHashVal |-> "r1" ]

-----------------------------------------------------------------------------
(* detectDirtyPadding *)

\* b & 0xF0 and b & 0xC0 of a byte
AndF0(b) == (b \div 16) * 16
AndC0(b) == (b \div 64) * 64

\* the [1]byte array is tested against 0xF0, each byte of a longer array against 0xC0
detectDirtyPadding(v) ==
    \/ AndF0(v.Target) # 0
    \/ \E i \in 1..Len(v.Data) : AndC0(v.Data[i]) # 0

-----------------------------------------------------------------------------
(* Execute *)

fuzzerVars == <<globalSeenCIDs, currentCoverage, lastNewCoverage>>

\* the coverage ids of a trace not seen before
NewlySeen(tr) == {tr[i] : i \in 1..Len(tr)} \ globalSeenCIDs

\* "Calculate Cumulative Coverage" and the final return of Execute
ExecuteFinish(sig, bug, tr) ==
    /\ signature' = sig
    /\ bugTriggered' = bug
    /\ globalSeenCIDs' = globalSeenCIDs \cup NewlySeen(tr)
    /\ IF Cardinality(NewlySeen(tr)) > 0
         THEN /\ lastNewCoverage' = Cardinality(NewlySeen(tr))
              /\ currentCoverage' = Cardinality(globalSeenCIDs')
              /\ newCoverageFound' = TRUE
         ELSE /\ lastNewCoverage' = 0
              /\ currentCoverage' = currentCoverage
              /\ newCoverageFound' = FALSE
    /\ pc' = IF op = "ExecuteWithObject" THEN "withobject" ELSE "idle"
    /\ UNCHANGED <<propagated>>

\* a bare "return" inside the round-trip checks: the named results as they are
ExecuteReturn(sig, bug) ==
    /\ signature' = sig
    /\ bugTriggered' = bug
    /\ pc' = IF op = "ExecuteWithObject" THEN "withobject" ELSE "idle"
    /\ UNCHANGED <<globalSeenCIDs, currentCoverage, lastNewCoverage, newCoverageFound, propagated>>

\* a panic of the SUT outside every recover(): it unwinds through the entry point
Propagate ==
    /\ propagated' = TRUE
    /\ pc' = "idle"
    /\ UNCHANGED <<globalSeenCIDs, currentCoverage, lastNewCoverage, newCoverageFound,
                   signature, bugTriggered>>

\* entry of Execute (directly, or as the first statement of ExecuteWithObject)
Begin(name, b, o, rd) ==
    /\ pc = "idle"
    /\ op' = name
    /\ sszBytes' = b
    /\ obj' = o
    /\ refDecode' = rd
    /\ stage' = 0
    /\ sut' = NoSut
    /\ bugFound' = FALSE
    /\ propagated' = FALSE
    /\ bugTriggered' = FALSE
    /\ newCoverageFound' = FALSE
    /\ trace' = <<>>
    /\ UNCHANGED <<globalSeenCIDs, currentCoverage, lastNewCoverage, externalOracle,
                   targetPrototype, auxVars>>
    /\ IF targetPrototype.ssz
         THEN /\ pc' = "unmarshal"
              /\ signature' = NewRuntimeSignature
         ELSE \* the target is no ssz.Unmarshaler / ssz.Marshaler
              /\ pc' = IF name = "ExecuteWithObject" THEN "withobject" ELSE "idle"
              /\ signature' = SetNonBug(NewRuntimeSignature)

Execute ==
    \E b \in ByteStrings, rd \in RefDecodeOutcomes : Begin("Execute", b, NilObject, rd)

ExecuteWithObject ==
    \E b \in ByteStrings, rd \in RefDecodeOutcomes, o \in Objects \cup {NilObject} :
        Begin("ExecuteWithObject", b, o, rd)

callVars == <<externalOracle, targetPrototype, op, stage, sszBytes, obj, refDecode, auxVars>>

\* unmarshaler.UnmarshalSSZ(sszBytes) under recover(), the trace snapshot, and
\* the first two arms of "Synthesize Feedback"
ExecUnmarshalWith(traces) ==
    /\ pc = "unmarshal"
    /\ \E out \in Outcomes, tr \in traces :
        /\ trace' = tr
        /\ \/ /\ out = "panic"
              /\ sut' = [sut EXCEPT !.unmarshal = out]
              /\ ExecuteFinish(SetBug(signature, "Panic"), TRUE, tr)
           \/ /\ out = "err"
              /\ sut' = [sut EXCEPT !.unmarshal = out]
              /\ ExecuteFinish(SetNonBug(signature), FALSE, tr)
           \/ /\ out = "ok"
              /\ \E v \in TargetValues : sut' = [sut EXCEPT !.unmarshal = out, !.decoded = v]
              /\ pc' = "marshal"
              /\ UNCHANGED <<fuzzerVars, signature, bugTriggered, newCoverageFound, propagated>>
    /\ UNCHANGED <<callVars, bugFound>>

\* safeMarshal(marshaler)
ExecMarshal ==
    /\ pc = "marshal"
    /\ \E out \in Outcomes :
        \/ /\ out = "panic"
           /\ sut' = [sut EXCEPT !.marshal = out]
           /\ ExecuteFinish(SetBug(signature, "MarshalPanic"), TRUE, trace)
        \/ /\ out = "err"
           /\ sut' = [sut EXCEPT !.marshal = out]
           /\ ExecuteFinish(SetNonBug(signature), bugTriggered, trace)
        \/ /\ out = "ok"
           /\ \E b \in ByteStrings : sut' = [sut EXCEPT !.marshal = out, !.reencoded = b]
           /\ pc' = "reunmarshal"
           /\ UNCHANGED <<fuzzerVars, signature, bugTriggered, newCoverageFound, propagated>>
    /\ UNCHANGED <<callVars, bugFound, trace>>

\* remarshaledTarget.UnmarshalSSZ(reencodedBytes): called with no recover() around it
ExecReUnmarshal ==
    /\ pc = "reunmarshal"
    /\ \E out \in Outcomes :
        /\ sut' = [sut EXCEPT !.reUnmarshal = out]
        /\ \/ /\ out = "panic"
              /\ Propagate
           \/ /\ out = "err"
              /\ ExecuteReturn(SetNonBug(signature), bugTriggered)
           \/ /\ out = "ok"
              /\ pc' = "rehash"
              /\ UNCHANGED <<fuzzerVars, signature, bugTriggered, newCoverageFound, propagated>>
    /\ UNCHANGED <<callVars, bugFound, trace>>

\* safeHashRoot(remarshaledTarget)
ExecReHash ==
    /\ pc = "rehash"
    /\ \E out \in Outcomes :
        \/ /\ out = "panic"
           /\ sut' = [sut EXCEPT !.reHash = out]
           /\ ExecuteReturn(SetBug(signature, "HashTreeRootPanic"), TRUE)
        \/ /\ out = "err"
           /\ sut' = [sut EXCEPT !.reHash = out]
           /\ ExecuteReturn(SetNonBug(signature), bugTriggered)
        \/ /\ out = "ok"
           /\ \E r \in Roots : sut' = [sut EXCEPT !.reHash = out, !.reHashVal = r]
           /\ pc' = IF targetPrototype.canonicalizer THEN "canonicalize" ELSE "orighash"
           /\ UNCHANGED <<fuzzerVars, signature, bugTriggered, newCoverageFound, propagated>>
    /\ UNCHANGED <<callVars, bugFound, trace>>

\* canonicalizer.Canonicalize(): called with no recover() around it
ExecCanonicalize ==
    /\ pc = "canonicalize"
    /\ \E out \in Outcomes :
        /\ sut' = [sut EXCEPT !.canon = out]
        /\ \/ /\ out = "panic"
              /\ Propagate
           \/ /\ out = "err"
              /\ ExecuteReturn(SetNonBug(signature), bugTriggered)
           \/ /\ out = "ok"
              /\ pc' = "orighash"
              /\ UNCHANGED <<fuzzerVars, signature, bugTriggered, newCoverageFound, propagated>>
    /\ UNCHANGED <<callVars, bugFound, trace>>

\* the comparison of the two roots, then of the two byte strings
ExecCompare(s) ==
    IF s.origHashVal # s.reHashVal
      THEN ExecuteReturn(
             SetBug(signature, IF detectDirtyPadding(s.decoded)
                                 THEN "BitvectorDirtyPadding" ELSE "SemanticMismatch"),
             TRUE)
      ELSE IF sszBytes # s.reencoded
        THEN ExecuteFinish(
               SetBug(signature, IF detectDirtyPadding(s.decoded)
                                   THEN "BitvectorDirtyPadding" ELSE "RoundTripMismatch"),
               TRUE, trace)
        ELSE ExecuteFinish(SetSuccess(signature), bugTriggered, trace)

\* safeHashRoot of the canonical target, or of the target itself
ExecOrigHash ==
    /\ pc = "orighash"
    /\ \E out \in Outcomes :
        \/ /\ out = "panic"
           /\ sut' = [sut EXCEPT !.origHash = out]
           /\ ExecuteReturn(SetBug(signature, "HashTreeRootPanic"), TRUE)
        \/ /\ out = "err"
           /\ sut' = [sut EXCEPT !.origHash = out]
           /\ ExecuteReturn(SetNonBug(signature), bugTriggered)
        \/ /\ out = "ok"
           /\ \E r \in Roots :
                /\ sut' = [sut EXCEPT !.origHash = out, !.origHashVal = r]
                /\ ExecCompare(sut')
    /\ UNCHANGED <<callVars, bugFound, trace>>

\* an instrumented SUT: the tracer holds any trace
ExecUnmarshal == ExecUnmarshalWith(Traces)

\* a SUT built without instrumentation: tracer.Snapshot() is empty
ExecUnmarshalUntraced == ExecUnmarshalWith({<<>>})

\* a Reset that keeps the coverage reached
ResetKeepsCoverage ==
    /\ pc = "idle"
    /\ globalSeenCIDs' = {}
    /\ currentCoverage' = currentCoverage
    /\ lastNewCoverage' = 0
    /\ UNCHANGED <<externalOracle, targetPrototype, op, pc, stage, sszBytes, obj, signature,
                   bugTriggered, newCoverageFound, trace, bugFound, propagated, sut,
                   refDecode, auxVars>>

Reset ==
    /\ pc = "idle"
    /\ globalSeenCIDs' = {}
    /\ currentCoverage' = 0
    /\ lastNewCoverage' = 0
    /\ UNCHANGED <<externalOracle, targetPrototype, op, pc, stage, sszBytes, obj, signature,
                   bugTriggered, newCoverageFound, trace, bugFound, propagated, sut,
                   refDecode, auxVars>>

SetExternalOracle ==
    /\ pc = "idle"
    /\ externalOracle' = ~externalOracle
    /\ UNCHANGED <<globalSeenCIDs, currentCoverage, lastNewCoverage, targetPrototype, op, pc,
                   stage, sszBytes, obj, signature, bugTriggered, newCoverageFound, trace,
                   bugFound, propagated, sut, refDecode, auxVars>>

-----------------------------------------------------------------------------
(* applyReferenceChecks, ExecuteWithObject, PreflightChecks *)

refFrame == <<globalSeenCIDs, currentCoverage, lastNewCoverage, externalOracle,
              targetPrototype, op, stage, sszBytes, obj, newCoverageFound, trace, sut,
              refDecode, auxVars>>

\* Execute has returned into ExecuteWithObject: "if obj == nil { return }"
ExecuteWithObjectContinue ==
    /\ pc = "withobject"
    /\ pc' = IF obj.kind = "nil" THEN "idle" ELSE "refsize"
    /\ sut' = NoSut
    /\ refDecode' = "ok"
    /\ bugFound' = FALSE
    /\ UNCHANGED <<globalSeenCIDs, currentCoverage, lastNewCoverage, externalOracle,
                   targetPrototype, op, stage, sszBytes, obj, newCoverageFound, trace,
                   signature, bugTriggered, propagated, auxVars>>

RefPropagate ==
    /\ propagated' = TRUE
    /\ pc' = "idle"
    /\ UNCHANGED <<signature, bugTriggered, bugFound>>

\* Execute answers RuntimeSignature{NonBugErrorCount: 1}, whose BugKinds map is
\* nil, for a target without the fastssz methods; counting a bug kind in that
\* signature is an assignment to an entry of a nil map, which panics
WritesNilMap(sig) ==
    /\ op = "ExecuteWithObject"
    /\ ~targetPrototype.ssz
    /\ sig.BugKinds # signature.BugKinds

\* "return bugFound" of applyReferenceChecks, and what its caller does with it
RefReturn(sig, bf) ==
    IF WritesNilMap(sig) THEN RefPropagate
    ELSE /\ signature' = sig
         /\ bugFound' = bf
         /\ UNCHANGED propagated
         /\ IF op = "ExecuteWithObject"
              THEN /\ bugTriggered' = (bugTriggered \/ bf)
                   /\ pc' = IF externalOracle THEN "external" ELSE "idle"
              ELSE /\ bugTriggered' = bf
                   /\ pc' = IF bf THEN "idle" ELSE "preflight"

\* a step of applyReferenceChecks that goes on to the next check
RefGoOn(sig, bf, next) ==
    IF WritesNilMap(sig) THEN RefPropagate
    ELSE /\ signature' = sig
         /\ bugFound' = bf
         /\ pc' = next
         /\ UNCHANGED <<bugTriggered, propagated>>

\* safeSizeSSZ(sizer)
RefSizeSSZ ==
    /\ pc = "refsize"
    /\ IF obj.kind = "full"
         THEN \E panicked \in BOOLEAN :
                IF panicked
                  THEN RefGoOn(IncBug(signature, "SizeSSZPanic"), TRUE, "refmarshal")
                  ELSE RefGoOn(signature, bugFound, "refmarshal")
         ELSE RefGoOn(signature, bugFound, "refmarshal")
    /\ UNCHANGED refFrame

\* the four arms that compare sszref.Marshal(obj) with safeMarshal(marshaler)
RefMarshalArms(sig, bf, refOK, fast, same, next) ==
    IF fast = "panic"
      THEN RefGoOn(IncBug(sig, "MarshalPanic"), TRUE, next)
    ELSE IF refOK /\ fast = "err"
      THEN RefGoOn(IncBug(sig, "ReferenceMarshalError"), TRUE, next)
    ELSE IF refOK /\ fast = "ok" /\ ~same
      THEN RefGoOn(IncBug(sig, "ReferenceMarshalMismatch"), TRUE, next)
    ELSE IF ~refOK /\ fast = "ok"
      THEN RefGoOn(IncNonBug(sig), bf, next)
    ELSE RefGoOn(sig, bf, next)

RefMarshal ==
    /\ pc = "refmarshal"
    /\ IF obj.kind = "full"
         THEN \E fast \in Outcomes, same \in BOOLEAN :
                RefMarshalArms(signature, bugFound, obj.refMarshalOK, fast, same, "refhash")
         ELSE RefGoOn(signature, bugFound, "refhash")
    /\ UNCHANGED refFrame

\* after the root comparison: "if refRootErr != nil { return bugFound }", then the
\* proof checks when obj is an ssz.HashRootProof
RefAfterRoot(sig, bf) ==
    IF obj.refRootOK /\ obj.kind = "full"
      THEN RefGoOn(sig, bf, "prooftree")
      ELSE RefReturn(sig, bf)

RefHashRoot ==
    /\ pc = "refhash"
    /\ IF obj.kind = "full"
         THEN \E fast \in Outcomes, same \in BOOLEAN :
                IF fast = "panic"
                  THEN RefAfterRoot(IncBug(signature, "HashTreeRootPanic"), TRUE)
                ELSE IF obj.refRootOK /\ fast = "err"
                  THEN RefAfterRoot(IncBug(signature, "ReferenceHTRError"), TRUE)
                ELSE IF obj.refRootOK /\ fast = "ok" /\ ~same
                  THEN RefAfterRoot(IncBug(signature, "ReferenceHTRMismatch"), TRUE)
                ELSE IF ~obj.refRootOK /\ fast = "ok"
                  THEN RefAfterRoot(IncNonBug(signature), bugFound)
                ELSE RefAfterRoot(signature, bugFound)
         ELSE RefAfterRoot(signature, bugFound)
    /\ UNCHANGED refFrame

\* ssz.ProofTree(proofTarget) under recover()
RefProofTree ==
    /\ pc = "prooftree"
    /\ \E out \in {"tree", "nil", "err", "panic"} :
        CASE out = "panic" -> RefReturn(IncBug(signature, "ProofPanic"), TRUE)
          [] out = "err"   -> RefReturn(IncBug(signature, "ProofTreeError"), TRUE)
          [] out = "nil"   -> RefReturn(signature, bugFound)
          [] out = "tree"  -> RefGoOn(signature, bugFound, "treehash")
    /\ UNCHANGED refFrame

\* tree.Hash() and selectProofIndices(tree, 2): called with no recover() around them
RefTreeHash ==
    /\ pc = "treehash"
    /\ \E out \in {"same", "differs", "panic"} :
        CASE out = "panic"   -> RefPropagate
          [] out = "differs" -> RefGoOn(IncBug(signature, "ProofTreeMismatch"), TRUE, "provemulti")
          [] out = "same"    -> RefGoOn(signature, bugFound, "provemulti")
    /\ UNCHANGED refFrame

\* tree.ProveMulti(indices): called with no recover() around it
RefProveMulti ==
    /\ pc = "provemulti"
    /\ \E out \in Outcomes :
        CASE out = "panic" -> RefPropagate
          [] out = "err"   -> RefReturn(IncBug(signature, "MultiproofError"), TRUE)
          [] out = "ok"    -> RefGoOn(signature, bugFound, "verify")
    /\ UNCHANGED refFrame

\* sszref.VerifyMultiproof, then ssz.VerifyMultiproof with no recover() around it
RefVerifyMultiproof ==
    /\ pc = "verify"
    /\ \E ref \in {"err", "false", "true"} :
        CASE ref = "err"   -> RefReturn(IncNonBug(signature), bugFound)
          [] ref = "false" -> RefReturn(IncBug(signature, "MultiproofInvalid"), TRUE)
          [] ref = "true"  ->
               \E fast \in {"true", "false", "err", "panic"} :
                 CASE fast = "panic" -> RefPropagate
                   [] fast = "true"  -> RefReturn(signature, bugFound)
                   [] OTHER          ->
                        RefReturn(IncBug(signature, "MultiproofVerifyMismatch"), TRUE)
    /\ UNCHANGED refFrame

\* the external-oracle block of ExecuteWithObject
ExternalChecks ==
    /\ pc = "external"
    /\ pc' = "idle"
    /\ IF ~obj.refMarshalOK
         THEN UNCHANGED <<signature, bugTriggered, propagated>>
         ELSE \E extErr \in BOOLEAN, inputIsRef \in BOOLEAN, canonIsInput \in BOOLEAN,
                 rootIsRef \in BOOLEAN :
                LET s1 == IF extErr
                            THEN IF inputIsRef
                                   THEN IncBug(signature, "ExternalDecodeError")
                                   ELSE signature
                            ELSE IF ~canonIsInput
                                   THEN IncBug(signature, "ExternalRoundTripMismatch")
                                   ELSE signature
                    s2 == IF ~extErr /\ obj.refRootOK /\ inputIsRef /\ ~rootIsRef
                            THEN IncBug(s1, "ExternalHTRMismatch")
                            ELSE s1
                IN  IF WritesNilMap(s2)
                      THEN /\ propagated' = TRUE
                           /\ UNCHANGED <<signature, bugTriggered>>
                      ELSE /\ signature' = s2
                           /\ bugTriggered' = (bugTriggered \/ s2 # signature)
                           /\ UNCHANGED propagated
    /\ UNCHANGED <<refFrame, bugFound>>

\* reflect.New(targetPrototype): it has the fastssz methods when the target has
ObjectsOfTarget ==
    {o \in Objects : o.kind = (IF targetPrototype.ssz THEN "full" ELSE "bare")}

\* the first stage after s that the target type allows: 2 nil pointer in a slice,
\* 3 minimal lengths, 4 max violation, 5 none left
NextStage(s) ==
    IF s < 2 /\ targetPrototype.ptrSlice THEN 2
    ELSE IF s < 3 /\ targetPrototype.minLen THEN 3
    ELSE IF s < 4 /\ targetPrototype.maxList THEN 4
    ELSE 5

\* entry of PreflightChecks: the zero object
PreflightChecks ==
    /\ pc = "idle"
    /\ op' = "PreflightChecks"
    /\ pc' = "refsize"
    /\ stage' = 1
    /\ signature' = NewRuntimeSignature
    /\ obj' \in ObjectsOfTarget
    /\ bugFound' = FALSE
    /\ bugTriggered' = FALSE
    /\ propagated' = FALSE
    /\ sut' = NoSut
    /\ UNCHANGED <<globalSeenCIDs, currentCoverage, lastNewCoverage, externalOracle,
                   targetPrototype, sszBytes, newCoverageFound, trace, refDecode, auxVars>>

\* the previous object found nothing: build the next one, or return (signature, false)
PreflightNext ==
    /\ pc = "preflight"
    /\ stage' = NextStage(stage)
    /\ pc' = CASE stage' = 5 -> "idle"
               [] stage' = 4 -> "maxviolation"
               [] OTHER      -> "refsize"
    /\ IF stage' = 5 THEN obj' = obj ELSE obj' \in ObjectsOfTarget
    /\ bugFound' = FALSE
    /\ UNCHANGED <<globalSeenCIDs, currentCoverage, lastNewCoverage, externalOracle,
                   targetPrototype, op, sszBytes, signature, bugTriggered, newCoverageFound,
                   trace, propagated, sut, refDecode, auxVars>>

checkMaxViolation ==
    /\ pc = "maxviolation"
    /\ pc' = "idle"
    /\ IF obj.kind # "full"
         THEN UNCHANGED <<signature, bugTriggered>>
         ELSE \E fast \in Outcomes, same \in BOOLEAN :
                /\ signature' =
                     IF fast = "panic" THEN IncBug(signature, "MarshalPanic")
                     ELSE IF ~obj.refMarshalOK /\ fast = "ok"
                       THEN IncBug(signature, "MaxLenBypass")
                     ELSE IF obj.refMarshalOK /\ fast = "err"
                       THEN IncBug(signature, "MaxLenReject")
                     ELSE IF obj.refMarshalOK /\ fast = "ok" /\ ~same
                       THEN IncBug(signature, "ReferenceMarshalMismatch")
                     ELSE signature
                /\ bugTriggered' = (signature' # signature)
    /\ UNCHANGED <<refFrame, bugFound, propagated>>

-----------------------------------------------------------------------------
(* internal/sszref: Go types, struct tags and values *)

\* a Go type: k is the reflect.Kind, elem the element type of an array or slice,
\* len the length of an array, fields the fields collectFields returns
BasicT(k) == [k |-> k, elem |-> <<>>, len |-> 0, fields |-> <<>>]
ArrayT(e, n) == [k |-> "array", elem |-> e, len |-> n, fields |-> <<>>]
SliceT(e) == [k |-> "slice", elem |-> e, len |-> 0, fields |-> <<>>]
StructT(fs) == [k |-> "struct", elem |-> <<>>, len |-> 0, fields |-> fs]

\* parseTagContext of a field's tag: the ssz-size and ssz-max lists ("?" is -1)
\* and whether the tag says ssz:"bitlist"
Tag(sizes, maxes, bitlist) == [sizes |-> sizes, maxes |-> maxes, isBitlist |-> bitlist]
NoTag == Tag(<<>>, <<>>, FALSE)
Field(name, type, tag) == [name |-> name, type |-> type, tag |-> tag]

\* tagContext.size / tagContext.max
ctxSize(ctx) ==
    IF Len(ctx.sizes) = 0 \/ ctx.sizes[1] < 0
      THEN [v |-> -1, ok |-> FALSE]
      ELSE [v |-> ctx.sizes[1], ok |-> TRUE]

ctxMax(ctx) ==
    IF Len(ctx.maxes) = 0 \/ ctx.maxes[1] < 0
      THEN [v |-> -1, ok |-> FALSE]
      ELSE [v |-> ctx.maxes[1], ok |-> TRUE]

\* tagContext.shift
shift(ctx) ==
    [ sizes |-> IF Len(ctx.sizes) > 1 THEN Tail(ctx.sizes) ELSE <<>>,
      maxes |-> IF Len(ctx.maxes) > 1 THEN Tail(ctx.maxes) ELSE <<>>,
      isBitlist |-> FALSE ]

RECURSIVE fixedSizeOfType(_, _)
RECURSIVE fixedSizeOfFields(_, _, _)

\* the struct arm of fixedSizeOfType: the sum of the fields' sizes, or not fixed
fixedSizeOfFields(fields, i, total) ==
    IF i > Len(fields)
      THEN [size |-> total, ok |-> TRUE]
      ELSE LET fs == fixedSizeOfType(fields[i].type, fields[i].tag)
           IN  IF ~fs.ok
                 THEN [size |-> 0, ok |-> FALSE]
                 ELSE fixedSizeOfFields(fields, i + 1, total + fs.size)

fixedSizeOfType(t, ctx) ==
    CASE t.k \in {"bool", "uint8"} -> [size |-> 1, ok |-> TRUE]
      [] t.k = "uint16" -> [size |-> 2, ok |-> TRUE]
      [] t.k = "uint32" -> [size |-> 4, ok |-> TRUE]
      [] t.k = "uint64" -> [size |-> 8, ok |-> TRUE]
      [] t.k = "array" ->
           LET es == fixedSizeOfType(t.elem, shift(ctx))
           IN  IF ~es.ok THEN [size |-> 0, ok |-> FALSE]
                         ELSE [size |-> es.size * t.len, ok |-> TRUE]
      [] t.k = "slice" ->
           IF ctx.isBitlist \/ ~ctxSize(ctx).ok
             THEN [size |-> 0, ok |-> FALSE]
             ELSE LET es == fixedSizeOfType(t.elem, shift(ctx))
                  IN  IF ~es.ok THEN [size |-> 0, ok |-> FALSE]
                                ELSE [size |-> es.size * ctxSize(ctx).v, ok |-> TRUE]
      [] t.k = "struct" -> fixedSizeOfFields(t.fields, 1, 0)
      [] OTHER -> [size |-> 0, ok |-> FALSE]

-----------------------------------------------------------------------------
(* internal/sszref: encode *)

RECURSIVE Pow(_, _)
Pow(b, e) == IF e = 0 THEN 1 ELSE b * Pow(b, e - 1)

\* binary.LittleEndian.PutUintN: the n low bytes of val, lowest first; the bytes
\* above them are lost, as in the conversion to uintN
RECURSIVE LittleEndian(_, _)
LittleEndian(val, n) ==
    IF n = 0 THEN <<>> ELSE <<val % 256>> \o LittleEndian(val \div 256, n - 1)

encodeUint16(val) == LittleEndian(val, 2)
encodeUint32(val) == LittleEndian(val, 4)
encodeUint64(val) == LittleEndian(val, 8)
encodeBool(val) == IF val THEN <<1>> ELSE <<0>>

Failed == [err |-> TRUE, out |-> <<>>]
Encoded(bytes) == [err |-> FALSE, out |-> bytes]

\* bits.Len8: the number of bits needed to write b
RECURSIVE Len8(_)
Len8(b) == IF b = 0 THEN 0 ELSE 1 + Len8(b \div 2)

\* validateBitlist with the bit length counted one too high
validateBitlistOffByOne(buf, maxBits) ==
    IF Len(buf) = 0 THEN TRUE
    ELSE IF buf[Len(buf)] = 0 THEN TRUE
    ELSE IF maxBits <= 0 THEN FALSE
    ELSE IF Len(buf) > (maxBits \div 8) + 1 THEN TRUE
    ELSE 8 * (Len(buf) - 1) + Len8(buf[Len(buf)]) > maxBits

\* validateBitlist: TRUE when the buffer is rejected
validateBitlist(buf, maxBits) ==
    IF Len(buf) = 0 THEN TRUE
    ELSE IF buf[Len(buf)] = 0 THEN TRUE
    ELSE IF maxBits <= 0 THEN FALSE
    ELSE IF Len(buf) > (maxBits \div 8) + 1 THEN TRUE
    ELSE IF Len8(buf[Len(buf)]) = 0 THEN TRUE
    ELSE 8 * (Len(buf) - 1) + Len8(buf[Len(buf)]) - 1 > maxBits

encodeBitlist(v, t, ctx) ==
    IF t.k # "slice" \/ t.elem.k # "uint8" THEN Failed
    ELSE IF validateBitlist(v, ctxMax(ctx).v) THEN Failed
    ELSE Encoded(v)

RECURSIVE encodeValue(_, _, _)
RECURSIVE encodeElems(_, _, _, _, _)
RECURSIVE encodeOffsetTable(_, _, _, _, _, _, _)
RECURSIVE encodeFields(_, _, _, _, _, _)

\* the loop "for i < length: out = append(out, encodeValue(v.Index(i), elemCtx))"
encodeElems(v, et, ectx, i, out) ==
    IF i > Len(v)
      THEN Encoded(out)
      ELSE LET enc == encodeValue(v[i], et, ectx)
           IN  IF enc.err THEN Failed
                          ELSE encodeElems(v, et, ectx, i + 1, out \o enc.out)

\* the loop of encodeSlice over variable-size elements: offset table, then data
encodeOffsetTable(v, et, ectx, i, fixed, variable, offset) ==
    IF i > Len(v)
      THEN Encoded(fixed \o variable)
      ELSE LET enc == encodeValue(v[i], et, ectx)
           IN  IF enc.err
                 THEN Failed
                 ELSE encodeOffsetTable(v, et, ectx, i + 1, fixed \o encodeUint32(offset),
                                        variable \o enc.out, offset + Len(enc.out))

encodeArray(v, t, ctx) ==
    IF t.elem.k = "uint8"
      THEN Encoded([i \in 1..Len(v) |-> v[i] % 256])
      ELSE encodeElems(v, t.elem, shift(ctx), 1, <<>>)

\* the length checks with ">=" in place of ">"
sliceLengthRejectedAtMax(length, ctx) ==
    \/ ctxSize(ctx).ok /\ length # ctxSize(ctx).v
    \/ ~ctxSize(ctx).ok /\ ctxMax(ctx).ok /\ length >= ctxMax(ctx).v

\* the two length checks of encodeSlice (and of hashSlice): TRUE when they reject
sliceLengthRejected(length, ctx) ==
    \/ ctxSize(ctx).ok /\ length # ctxSize(ctx).v
    \/ ~ctxSize(ctx).ok /\ ctxMax(ctx).ok /\ length > ctxMax(ctx).v

encodeSlice(v, t, ctx) ==
    IF ctx.isBitlist THEN encodeBitlist(v, t, ctx)
    ELSE IF sliceLengthRejected(Len(v), ctx) THEN Failed
    ELSE IF fixedSizeOfType(t.elem, shift(ctx)).ok
      THEN encodeElems(v, t.elem, shift(ctx), 1, <<>>)
      ELSE encodeOffsetTable(v, t.elem, shift(ctx), 1, <<>>, <<>>, 4 * Len(v))

\* the size of the fixed section: each fixed-size field, 4 bytes for every other
RECURSIVE fixedLenOf(_, _)
fixedLenOf(fields, i) ==
    IF i > Len(fields) THEN 0
    ELSE LET fs == fixedSizeOfType(fields[i].type, fields[i].tag)
         IN  (IF fs.ok THEN fs.size ELSE 4) + fixedLenOf(fields, i + 1)

\* offsets counted from the end of the fixed section instead of the container's start
firstOffsetZero(fields) == 0

\* "offset := fixedLen": the offset a struct's first variable payload gets
firstOffset(fields) == fixedLenOf(fields, 1)

\* the second loop of encodeStruct
encodeFields(fields, v, i, fixed, variable, offset) ==
    IF i > Len(fields)
      THEN Encoded(fixed \o variable)
      ELSE LET enc == encodeValue(v[i], fields[i].type, fields[i].tag)
           IN  IF enc.err THEN Failed
               ELSE IF fixedSizeOfType(fields[i].type, fields[i].tag).ok
                 THEN encodeFields(fields, v, i + 1, fixed \o enc.out, variable, offset)
                 ELSE encodeFields(fields, v, i + 1, fixed \o encodeUint32(offset),
                                   variable \o enc.out, offset + Len(enc.out))

encodeStruct(v, t) == encodeFields(t.fields, v, 1, <<>>, <<>>, firstOffset(t.fields))

encodeValue(v, t, ctx) ==
    CASE t.k = "bool"   -> Encoded(encodeBool(v))
      [] t.k = "uint8"  -> Encoded(<<v % 256>>)
      [] t.k = "uint16" -> Encoded(encodeUint16(v))
      [] t.k = "uint32" -> Encoded(encodeUint32(v))
      [] t.k = "uint64" -> Encoded(encodeUint64(v))
      [] t.k = "array"  -> encodeArray(v, t, ctx)
      [] t.k = "slice"  -> encodeSlice(v, t, ctx)
      [] t.k = "struct" -> encodeStruct(v, t)
      [] OTHER -> Failed

\* Marshal: the value is encoded with an empty tag context
Marshal(v, t) == encodeValue(v, t, NoTag)

-----------------------------------------------------------------------------
(* internal/sszref: hash tree root *)

\* a 32-byte value is <<"c", bytes, <<>>>>, 32 bytes as they are, or <<"h", l, r>>,
\* the SHA-256 of the 64 bytes l || r, taken to be collision free
ChunkSize == 32
Chunk(bytes) == <<"c", [i \in 1..ChunkSize |-> IF i <= Len(bytes) THEN bytes[i] ELSE 0], <<>>>>
ZeroChunk == Chunk(<<>>)

hashConcat(left, right) == <<"h", left, right>>

hashBool(val) == Chunk(IF val THEN <<1>> ELSE <<>>)
hashUint64(val) == Chunk(encodeUint64(val))

\* mixInLength with the length left out
mixInLengthDropped(root, length) == root

mixInLength(root, length) == hashConcat(root, Chunk(encodeUint64(length)))

\* chunkify: 32-byte chunks, the last one zero padded; no chunk for no data
chunkify(data) ==
    [i \in 1..((Len(data) + 31) \div 32) |->
        Chunk(SubSeq(data, (i - 1) * 32 + 1, IF i * 32 > Len(data) THEN Len(data) ELSE i * 32))]

RECURSIVE nextPowerOfTwoFrom(_, _)
nextPowerOfTwoFrom(p, n) == IF p < n THEN nextPowerOfTwoFrom(2 * p, n) ELSE p

nextPowerOfTwo(n) == IF n <= 1 THEN 1 ELSE nextPowerOfTwoFrom(1, n)

\* the loop of merkleizeChunks: hash adjacent pairs until one leaf is left
RECURSIVE merkleizeLeaves(_)
merkleizeLeaves(leaves) ==
    IF Len(leaves) <= 1
      THEN leaves[1]
      ELSE merkleizeLeaves([i \in 1..(Len(leaves) \div 2) |->
                               hashConcat(leaves[2 * i - 1], leaves[2 * i])])

Hashed(root) == [err |-> FALSE, root |-> root]
HashFailed == [err |-> TRUE, root |-> ZeroChunk]

\* merkleizeChunks padding to the number of chunks instead of the limit
merkleizeChunksPadToCount(chunks, limit) ==
    LET lim == IF limit = 0 THEN 1 ELSE limit
    IN  IF Len(chunks) > lim
          THEN HashFailed
          ELSE Hashed(merkleizeLeaves(
                 [i \in 1..nextPowerOfTwo(Len(chunks)) |->
                     IF i <= Len(chunks) THEN chunks[i] ELSE ZeroChunk]))

merkleizeChunks(chunks, limit) ==
    LET lim == IF limit = 0 THEN 1 ELSE limit
    IN  IF Len(chunks) > lim
          THEN HashFailed
          ELSE Hashed(merkleizeLeaves(
                 [i \in 1..nextPowerOfTwo(lim) |->
                     IF i <= Len(chunks) THEN chunks[i] ELSE ZeroChunk]))

merkleizeRoots(roots, limit) ==
    LET lim == IF limit = 0 THEN 1 ELSE limit
    IN  IF Len(roots) > lim THEN HashFailed ELSE merkleizeChunks(roots, lim)

calculateLimit(maxItems, elemSize) ==
    LET limit == (maxItems * elemSize + 31) \div 32
    IN  IF limit # 0 THEN limit ELSE IF maxItems = 0 THEN 1 ELSE maxItems

bitlistChunkLimit(maxBits) == IF maxBits <= 0 THEN 1 ELSE (maxBits + 255) \div 256

hashBytesVector(data) ==
    merkleizeChunks(chunkify(data), IF Len(chunkify(data)) = 0 THEN 1 ELSE Len(chunkify(data)))

hashPackedBasicVector(data, elemSize, length) ==
    IF elemSize <= 0 THEN HashFailed
    ELSE merkleizeChunks(chunkify(data), calculateLimit(length, elemSize))

hashPackedBasicList(data, elemSize, limit) ==
    IF elemSize <= 0 THEN HashFailed
    ELSE merkleizeChunks(chunkify(data), calculateLimit(limit, elemSize))

\* the trimming loop of parseBitlist: the length left after dropping trailing zeros
RECURSIVE trimmedLen(_, _)
trimmedLen(out, i) ==
    IF i = 0 THEN 0 ELSE IF out[i] # 0 THEN i ELSE trimmedLen(out, i - 1)

\* parseBitlist of a buffer validateBitlist accepted: the content with the length
\* bit cleared and trailing zero bytes dropped, and the number of bits
parseBitlist(buf) ==
    LET msb == Len8(buf[Len(buf)]) - 1
        out == [buf EXCEPT ![Len(buf)] = @ - Pow(2, msb)]
    IN  [content |-> SubSeq(out, 1, trimmedLen(out, Len(out))),
         size |-> 8 * (Len(buf) - 1) + msb]

hashBitlist(v, t, ctx) ==
    IF t.k # "slice" \/ t.elem.k # "uint8" THEN HashFailed
    ELSE IF validateBitlist(v, ctxMax(ctx).v) THEN HashFailed
    ELSE LET root == merkleizeChunks(chunkify(parseBitlist(v).content),
                                     bitlistChunkLimit(ctxMax(ctx).v))
         IN  IF root.err THEN HashFailed
                         ELSE Hashed(mixInLength(root.root, parseBitlist(v).size))

RECURSIVE hashValue(_, _, _)
RECURSIVE hashElems(_, _, _, _, _)
RECURSIVE hashFields(_, _, _, _)

\* the loop "for i < length: roots = append(roots, hashValue(v.Index(i), elemCtx))":
\* the roots, or <<"failed">> after the first error
hashElems(v, et, ectx, i, roots) ==
    IF i > Len(v)
      THEN [err |-> FALSE, roots |-> roots]
      ELSE LET r == hashValue(v[i], et, ectx)
           IN  IF r.err THEN [err |-> TRUE, roots |-> <<>>]
                        ELSE hashElems(v, et, ectx, i + 1, Append(roots, r.root))

hashFields(fields, v, i, roots) ==
    IF i > Len(fields)
      THEN [err |-> FALSE, roots |-> roots]
      ELSE LET r == hashValue(v[i], fields[i].type, fields[i].tag)
           IN  IF r.err THEN [err |-> TRUE, roots |-> <<>>]
                        ELSE hashFields(fields, v, i + 1, Append(roots, r.root))

hashStruct(v, t) ==
    LET rs == hashFields(t.fields, v, 1, <<>>)
    IN  IF rs.err THEN HashFailed ELSE merkleizeRoots(rs.roots, Len(rs.roots))

hashArray(v, t, ctx) ==
    IF t.elem.k = "uint8"
      THEN hashBytesVector([i \in 1..Len(v) |-> v[i] % 256])
    ELSE IF fixedSizeOfType(t.elem, shift(ctx)).ok
      THEN LET data == encodeElems(v, t.elem, shift(ctx), 1, <<>>)
           IN  IF data.err
                 THEN HashFailed
                 ELSE hashPackedBasicVector(data.out,
                                            fixedSizeOfType(t.elem, shift(ctx)).size, Len(v))
    ELSE LET rs == hashElems(v, t.elem, shift(ctx), 1, <<>>)
         IN  IF rs.err THEN HashFailed ELSE merkleizeRoots(rs.roots, Len(v))

hashSlice(v, t, ctx) ==
    IF ctx.isBitlist THEN hashBitlist(v, t, ctx)
    ELSE IF sliceLengthRejected(Len(v), ctx) THEN HashFailed
    ELSE IF fixedSizeOfType(t.elem, shift(ctx)).ok
      THEN LET data == encodeElems(v, t.elem, shift(ctx), 1, <<>>)
               elemSize == fixedSizeOfType(t.elem, shift(ctx)).size
           IN  IF data.err THEN HashFailed
               ELSE IF ctxSize(ctx).ok
                 THEN hashPackedBasicVector(data.out, elemSize, ctxSize(ctx).v)
                 ELSE LET root == hashPackedBasicList(
                                    data.out, elemSize,
                                    IF ctxMax(ctx).ok THEN ctxMax(ctx).v ELSE Len(v))
                      IN  IF root.err THEN HashFailed
                                      ELSE Hashed(mixInLength(root.root, Len(v)))
    ELSE LET rs == hashElems(v, t.elem, shift(ctx), 1, <<>>)
         IN  IF rs.err THEN HashFailed
             ELSE IF ctxSize(ctx).ok
               THEN merkleizeRoots(rs.roots, ctxSize(ctx).v)
               ELSE LET root == merkleizeRoots(
                                  rs.roots, IF ctxMax(ctx).ok THEN ctxMax(ctx).v ELSE Len(v))
                    IN  IF root.err THEN HashFailed
                                    ELSE Hashed(mixInLength(root.root, Len(v)))

hashValue(v, t, ctx) ==
    CASE t.k = "bool" -> Hashed(hashBool(v))
      [] t.k \in {"uint8", "uint16", "uint32", "uint64"} -> Hashed(hashUint64(v))
      [] t.k = "array"  -> hashArray(v, t, ctx)
      [] t.k = "slice"  -> hashSlice(v, t, ctx)
      [] t.k = "struct" -> hashStruct(v, t)
      [] OTHER -> HashFailed

\* HashTreeRoot: the value is hashed with an empty tag context
HashTreeRoot(v, t) == hashValue(v, t, NoTag)

-----------------------------------------------------------------------------
(* The struct types and values the reference codec is applied to *)

\* the longest list among the values, the largest declared bitlist maximum and
\* the longest bitlist buffer among the values
MaxListLen == 3
MaxBits == 9
MaxBitlistBytes == 2

\* the declared maximum of the lists: one less than the longest list
ListMax == MaxListLen - 1

SeqsUpTo(S, n) == UNION {[1..k -> S] : k \in 0..n}

BoolT == BasicT("bool")
ByteT == BasicT("uint8")
Uint64T == BasicT("uint64")
Root == ArrayT(ByteT, 32)

MaxTag(max) == Tag(<<>>, <<max>>, FALSE)
SizeTag(size) == Tag(<<size>>, <<>>, FALSE)
BitlistTag(max) == Tag(<<>>, <<max>>, TRUE)

\* schemas.Fork, Eth1Data and PendingAttestation, each with fewer fields
Fork == StructT(<<Field("CurrentVersion", ArrayT(ByteT, 4), NoTag),
                  Field("Epoch", Uint64T, NoTag)>>)
Eth1Data == StructT(<<Field("DepositRoot", Root, NoTag),
                      Field("DepositCount", Uint64T, NoTag)>>)
PendingAttestation(max) ==
    StructT(<<Field("AggregationBits", SliceT(ByteT), MaxTag(max)),
              Field("InclusionDelay", Uint64T, NoTag)>>)
BeaconBlockHeader == StructT(<<Field("Slot", Uint64T, NoTag),
                               Field("ProposerIndex", Uint64T, NoTag)>>)

\* a schema is a struct type of the repository with its maxima scaled down to max
Schemas ==
    [name : {"PSSZBitlistBench"}, max : 0..MaxBits]
      \cup [name : {"PSSZByteListBench", "PSSZHTRListBench", "PSSZHeaderListBench"},
            max : {0, ListMax}]
      \cup [name : {"BooleanOffsetStruct", "PSSZBoolBench", "BeaconState"}, max : {ListMax}]

TypeOf(id) ==
    CASE id.name = "BooleanOffsetStruct" ->
           StructT(<<Field("Magic", Uint64T, NoTag),
                     Field("FlagA", BoolT, NoTag),
                     Field("PayloadA", SliceT(ByteT), MaxTag(id.max)),
                     Field("FlagB", BoolT, NoTag),
                     Field("PayloadB", SliceT(ByteT), MaxTag(id.max)),
                     Field("FlagC", BoolT, NoTag)>>)
      [] id.name = "PSSZBoolBench" ->
           StructT(<<Field("Slashed", BoolT, NoTag),
                     Field("Epoch", Uint64T, NoTag),
                     Field("Root", Root, NoTag)>>)
      [] id.name = "PSSZBitlistBench" ->
           StructT(<<Field("AggregationBits", SliceT(ByteT), BitlistTag(id.max)),
                     Field("Slot", Uint64T, NoTag)>>)
      [] id.name = "PSSZByteListBench" ->
           StructT(<<Field("Data", SliceT(ByteT), MaxTag(id.max))>>)
      [] id.name = "PSSZHTRListBench" ->
           StructT(<<Field("Balances", SliceT(Uint64T), MaxTag(id.max))>>)
      [] id.name = "PSSZHeaderListBench" ->
           StructT(<<Field("Headers", SliceT(BeaconBlockHeader), MaxTag(id.max))>>)
      [] id.name = "BeaconState" ->
           StructT(<<Field("Slot", Uint64T, NoTag),
                     Field("Fork", Fork, NoTag),
                     Field("Eth1DataVotes", SliceT(Eth1Data), MaxTag(id.max)),
                     Field("Slashings", SliceT(Uint64T), SizeTag(2)),
                     Field("CurrentEpochAttestations",
                           SliceT(PendingAttestation(id.max)), MaxTag(id.max))>>)

ByteLists == SeqsUpTo({1, 255}, MaxListLen)
BitlistBuffers == SeqsUpTo({0, 1, 3, 128}, MaxBitlistBytes)
RootValues == {[i \in 1..32 |-> 0], [i \in 1..32 |-> i]}
Eth1DataValues == {<<r, 3>> : r \in RootValues}
PendingAttestationValues == {<<<<>>, 1>>, <<<<1, 255>>, 2>>}

ValuesOf(id) ==
    CASE id.name = "BooleanOffsetStruct" ->
           {<<513, a, pa, TRUE, pb, FALSE>> : a \in BOOLEAN, pa \in ByteLists, pb \in ByteLists}
      [] id.name = "PSSZBoolBench" ->
           {<<a, 65536, r>> : a \in BOOLEAN, r \in RootValues}
      [] id.name = "PSSZBitlistBench" ->
           {<<b, 7>> : b \in BitlistBuffers}
      [] id.name = "PSSZByteListBench" ->
           {<<d>> : d \in ByteLists}
      [] id.name = "PSSZHTRListBench" ->
           {<<d>> : d \in SeqsUpTo({32, 16777216}, MaxListLen)}
      [] id.name = "PSSZHeaderListBench" ->
           {<<d>> : d \in SeqsUpTo({<<1, 2>>, <<256, 0>>}, MaxListLen)}
      [] id.name = "BeaconState" ->
           {<<7, <<<<1, 2, 3, 4>>, 9>>, votes, <<5, 6>>, atts>> :
               votes \in SeqsUpTo(Eth1DataValues, MaxListLen),
               atts \in SeqsUpTo(PendingAttestationValues, MaxListLen)}

\* what is known of one value: whether Marshal and HashTreeRoot have run on it,
\* and what they returned; roots is the slice of field roots hashStruct collects
CodecInputs ==
    UNION {{[schema |-> id, value |-> v,
             marshalled |-> FALSE, enc |-> Failed,
             hashed |-> FALSE, root |-> HashFailed, roots |-> <<>>] : v \in ValuesOf(id)} :
           id \in Schemas}

-----------------------------------------------------------------------------
\* NewInProcessFuzzer
InitFuzzer ==
    /\ globalSeenCIDs = {}
    /\ currentCoverage = 0
    /\ lastNewCoverage = 0
    /\ externalOracle = FALSE
    /\ targetPrototype \in TargetPrototypes
    /\ op = "none"
    /\ pc = "idle"
    /\ stage = 0
    /\ sszBytes = <<>>
    /\ obj = NilObject
    /\ signature = NewRuntimeSignature
    /\ bugTriggered = FALSE
    /\ newCoverageFound = FALSE
    /\ trace = <<>>
    /\ bugFound = FALSE
    /\ propagated = FALSE
    /\ sut = NoSut
    /\ refDecode = "ok"

Init == InitFuzzer /\ Idle("fuzzer")

\* one fuzzer driven through Execute and Reset, the SUT instrumented
Next ==
    \/ Execute
    \/ ExecUnmarshal
    \/ ExecMarshal
    \/ ExecReUnmarshal
    \/ ExecReHash
    \/ ExecCanonicalize
    \/ ExecOrigHash
    \/ Reset

Spec == Init /\ [][Next]_vars

\* one fuzzer driven through ExecuteWithObject and PreflightChecks, the SUT not
\* instrumented
NextObject ==
    \/ ExecuteWithObject
    \/ ExecUnmarshalUntraced
    \/ ExecMarshal
    \/ ExecReUnmarshal
    \/ ExecReHash
    \/ ExecCanonicalize
    \/ ExecOrigHash
    \/ ExecuteWithObjectContinue
    \/ RefSizeSSZ
    \/ RefMarshal
    \/ RefHashRoot
    \/ RefProofTree
    \/ RefTreeHash
    \/ RefProveMulti
    \/ RefVerifyMultiproof
    \/ ExternalChecks
    \/ PreflightChecks
    \/ PreflightNext
    \/ checkMaxViolation
    \/ SetExternalOracle

SpecObject == Init /\ [][NextObject]_vars

\* the reference codec applied to one value of one schema
CodecInit == InitFuzzer /\ Idle("codec") /\ codec \in CodecInputs

CallMarshal ==
    /\ ~codec.marshalled
    /\ codec' = [codec EXCEPT !.marshalled = TRUE,
                              !.enc = Marshal(codec.value, TypeOf(codec.schema))]
    /\ UNCHANGED oracleVars
    /\ Frame("codec")

CallHashTreeRoot ==
    /\ ~codec.hashed
    /\ codec' = [codec EXCEPT
                   !.hashed = TRUE,
                   !.root = HashTreeRoot(codec.value, TypeOf(codec.schema)),
                   !.roots = hashFields(TypeOf(codec.schema).fields, codec.value, 1, <<>>).roots]
    /\ UNCHANGED oracleVars
    /\ Frame("codec")

NextCodec == CallMarshal \/ CallHashTreeRoot

SpecCodec == CodecInit /\ [][NextCodec]_vars

-----------------------------------------------------------------------------
(* merkleizeChunks applied to k chunks and a limit *)

\* the most chunks and the largest limit of a call
MaxChunks == 4
MaxLimit == 5

\* the chunks of a call: zero chunks, data chunks and roots of subtrees
ChunkValues == {ZeroChunk, Chunk(<<1>>), hashConcat(ZeroChunk, ZeroChunk)}

MerkleInputs ==
    [chunks : SeqsUpTo(ChunkValues, MaxChunks), limit : 0..MaxLimit,
     done : {FALSE}, res : {HashFailed}]

MerkleInit == InitFuzzer /\ Idle("merkle") /\ merkle \in MerkleInputs

CallMerkleizeChunks ==
    /\ ~merkle.done
    /\ merkle' = [merkle EXCEPT !.done = TRUE,
                                !.res = merkleizeChunks(merkle.chunks, merkle.limit)]
    /\ UNCHANGED oracleVars
    /\ Frame("merkle")

NextMerkle == CallMerkleizeChunks

SpecMerkle == MerkleInit /\ [][NextMerkle]_vars

-----------------------------------------------------------------------------
(* internal/sszref: multiproofs *)

\* the generalized indices of a tree of four levels, and its bottom level
Gindices == 1..15
BottomLevel == 8..15

\* the most leaves a proof is asked for
MaxLeaves == 3

getSibling(index) == IF index % 2 = 0 THEN index + 1 ELSE index - 1
getParent(index) == index \div 2

\* the values "cur" takes in the loop "for cur > 1" started at a leaf
RECURSIVE pathFrom(_)
pathFrom(cur) == IF cur > 1 THEN {cur} \cup pathFrom(getParent(cur)) ELSE {}

\* sort.Sort(sort.Reverse(sort.IntSlice(...))) of distinct integers
RECURSIVE sortReverse(_)
sortReverse(S) ==
    IF S = {} THEN <<>>
    ELSE LET m == CHOOSE x \in S : \A y \in S : y <= x
         IN  <<m>> \o sortReverse(S \ {m})

Range(seq) == {seq[i] : i \in 1..Len(seq)}

\* the same sort of a slice that may hold an integer more than once
RECURSIVE sortReverseSeq(_)
sortReverseSeq(seq) ==
    IF seq = <<>> THEN <<>>
    ELSE LET m == CHOOSE i \in 1..Len(seq) : \A j \in 1..Len(seq) : seq[j] <= seq[i]
         IN  <<seq[m]>> \o sortReverseSeq(SubSeq(seq, 1, m - 1) \o SubSeq(seq, m + 1, Len(seq)))

\* getRequiredIndices that does not delete the computed nodes
getRequiredIndicesKeepComputed(leafIndices) ==
    LET path == UNION {pathFrom(leafIndices[i]) : i \in 1..Len(leafIndices)}
        required == {getSibling(cur) : cur \in path}
    IN  sortReverse(required \ Range(leafIndices))

getRequiredIndices(leafIndices) ==
    LET path == UNION {pathFrom(leafIndices[i]) : i \in 1..Len(leafIndices)}
        required == {getSibling(cur) : cur \in path}
        computed == {getParent(cur) : cur \in path}
    IN  sortReverse((required \ Range(leafIndices)) \ computed)

\* the map db: a generalized index has a node or has none
NoNode == <<"none">>

\* the loop of VerifyMultiproof; pos and posAux count from 0 as in the code.
\* Reading auxGenIndices[posAux] with posAux = len(auxGenIndices) panics.
RECURSIVE verifyLoop(_, _, _, _, _, _)
verifyLoop(db, user, aux, pos, posAux, root) ==
    LET finish == IF db[1] = NoNode THEN "err"
                  ELSE IF db[1] = root THEN "true" ELSE "false"
    IN  IF ~(posAux < Len(aux) \/ pos < Len(user)) THEN finish
        ELSE IF Len(aux) # 0 /\ pos < Len(user) /\ posAux >= Len(aux) THEN "panic"
        ELSE LET fromUser == Len(aux) = 0
                               \/ (pos < Len(user) /\ aux[posAux + 1] < user[pos + 1])
                 index == IF fromUser THEN user[pos + 1] ELSE aux[posAux + 1]
                 pos2 == IF fromUser THEN pos + 1 ELSE pos
                 posAux2 == IF fromUser THEN posAux ELSE posAux + 1
                 left == db[2 * (index \div 2)]
                 right == db[2 * (index \div 2) + 1]
             IN  IF index = 1 THEN finish
                 ELSE IF db[getParent(index)] # NoNode
                   THEN verifyLoop(db, user, aux, pos2, posAux2, root)
                 ELSE IF right = NoNode \/ left = NoNode THEN "err"
                 ELSE verifyLoop([db EXCEPT ![getParent(index)] = hashConcat(left, right)],
                                 user, Append(aux, getParent(index)), pos2, posAux2, root)

\* VerifyMultiproof: "true", "false", "err" (an error is returned) or "panic"
VerifyMultiproof(root, hashes, leaves, indices) ==
    IF Len(indices) = 0 THEN "err"
    ELSE IF Len(leaves) # Len(indices) THEN "err"
    ELSE LET reqIndices == getRequiredIndices(indices)
             db0 == [g \in 0..15 |->
                       IF g \in Range(reqIndices)
                         THEN hashes[CHOOSE i \in 1..Len(reqIndices) : reqIndices[i] = g]
                       ELSE IF g \in Range(indices)
                         THEN leaves[CHOOSE i \in 1..Len(indices) :
                                       indices[i] = g /\ \A j \in i + 1..Len(indices) :
                                                            indices[j] # g]
                       ELSE NoNode]
             userGenIndices == sortReverseSeq(indices \o reqIndices)
         IN  IF Len(reqIndices) # Len(hashes) THEN "err"
             \* capacity := int(math.Log2(float64(userGenIndices[0]))): for 0 the
             \* logarithm is -Inf, converted to the least int, and make panics
             ELSE IF userGenIndices[1] = 0 THEN "panic"
             ELSE verifyLoop(db0, userGenIndices, <<>>, 0, 0, root)

\* the Merkle tree of a value: distinct chunks on the bottom level, hashes above
RECURSIVE TreeNode(_)
TreeNode(g) ==
    IF g \in BottomLevel THEN Chunk(<<g>>)
    ELSE hashConcat(TreeNode(2 * g), TreeNode(2 * g + 1))

\* a 32-byte value that is no node of the tree
ForeignChunk == Chunk(<<255>>)

\* the proofs asked for: up to MaxLeaves distinct nodes, the deepest first
IndexLists == {sortReverse(S) : S \in {T \in SUBSET Gindices : Cardinality(T) \in 1..MaxLeaves}}

ProofInputs ==
    [indices : IndexLists, root : {TreeNode(1), ForeignChunk}, stage : {"asked"},
     required : {<<>>}, hashes : {<<>>}, leaves : {<<>>}, tampered : {0}, res : {"none"}]

ProofInit == InitFuzzer /\ Idle("proof") /\ proof \in ProofInputs

CallGetRequiredIndices ==
    /\ proof.stage = "asked"
    /\ proof' = [proof EXCEPT !.stage = "required",
                              !.required = getRequiredIndices(proof.indices)]
    /\ UNCHANGED oracleVars
    /\ Frame("proof")

\* the proof of the leaves: the tree's nodes at the indices and at the required indices
ProveMulti ==
    /\ proof.stage = "required"
    /\ proof' = [proof EXCEPT
                   !.stage = "proved",
                   !.leaves = [i \in 1..Len(proof.indices) |-> TreeNode(proof.indices[i])],
                   !.hashes = [i \in 1..Len(proof.required) |-> TreeNode(proof.required[i])]]
    /\ UNCHANGED oracleVars
    /\ Frame("proof")

\* one witness of the proof is replaced by another 32-byte value
TamperWitness ==
    /\ proof.stage = "proved"
    /\ proof.tampered = 0
    /\ \E i \in 1..Len(proof.hashes) :
         proof' = [proof EXCEPT !.tampered = i, !.hashes[i] = ForeignChunk]
    /\ UNCHANGED oracleVars
    /\ Frame("proof")

CallVerifyMultiproof ==
    /\ proof.stage = "proved"
    /\ proof' = [proof EXCEPT
                   !.stage = "verified",
                   !.res = VerifyMultiproof(proof.root, proof.hashes, proof.leaves,
                                            proof.indices)]
    /\ UNCHANGED oracleVars
    /\ Frame("proof")

NextProof == CallGetRequiredIndices \/ ProveMulti \/ TamperWitness \/ CallVerifyMultiproof

SpecProof == ProofInit /\ [][NextProof]_vars

-----------------------------------------------------------------------------
(* The oracle: claims C1 - C4 *)

\* an entry point has returned to its caller with its results
Returned(name) == op = name /\ pc = "idle" /\ ~propagated

\* the number of bug kinds a signature carries
KindCount(sig) == Cardinality({k \in BugKindNames : sig.BugKinds[k] > 0})

\* C1: no panic raised by the SUT during an oracle invocation ever reaches the
\* caller of the oracle: each is turned into a bug classification.
C1_NoPanicPropagates == ~propagated

\* C2: Execute reports a round-trip success only when the SUT decoded the input,
\* re-encoded it, the re-encoding equals the input byte for byte and the two roots
\* agree; and whenever the SUT accepts B and re-encodes it to B' # B, Execute
\* reports a bug.
C2_NoSilentAcceptance ==
    Returned("Execute") /\ targetPrototype.ssz =>
        /\ signature.RoundtripSuccessCount = 1 =>
             /\ signature.BugFoundCount = 0
             /\ ~bugTriggered
             /\ sut.unmarshal = "ok"
             /\ sut.marshal = "ok"
             /\ sut.reencoded = sszBytes
             /\ sut.reUnmarshal = "ok"
             /\ sut.reHash = "ok" /\ sut.origHash = "ok"
             /\ sut.reHashVal = sut.origHashVal
        /\ sut.unmarshal = "ok" /\ sut.marshal = "ok" /\ sut.reencoded # sszBytes =>
             /\ signature.BugFoundCount >= 1
             /\ bugTriggered

\* C3: one oracle invocation records at most one bug: the signature it returns
\* carries at most one bug kind and a bug count of at most 1.
C3_AtMostOneBug ==
    pc = "idle" => signature.BugFoundCount <= 1 /\ KindCount(signature) <= 1

\* C4: a decode error of the SUT counts as a non-bug only when the reference
\* decode of the same bytes fails too; when exactly one of the two decodes fails
\* the oracle reports a bug.
C4_DecodeDisagreementIsBug ==
    Returned("Execute") /\ targetPrototype.ssz =>
        /\ sut.unmarshal = "err" /\ signature.BugFoundCount = 0 => refDecode = "err"
        /\ sut.unmarshal = "err" /\ refDecode = "ok" => signature.BugFoundCount >= 1
        /\ sut.unmarshal = "ok" /\ refDecode = "err" => signature.BugFoundCount >= 1

-----------------------------------------------------------------------------
(* The reference codec: claims C5 - C10 *)

CodecType == TypeOf(codec.schema)
CodecFields == CodecType.fields

FieldFixed(f) == fixedSizeOfType(f.type, f.tag).ok
FieldWidth(f) == IF FieldFixed(f) THEN fixedSizeOfType(f.type, f.tag).size ELSE 4

\* where field i starts in the fixed section, counted from the container's start
RECURSIVE FixedSectionPos(_, _)
FixedSectionPos(fields, i) ==
    IF i = 1 THEN 0 ELSE FixedSectionPos(fields, i - 1) + FieldWidth(fields[i - 1])

FixedSectionSize(fields) == FixedSectionPos(fields, Len(fields) + 1)

\* the little-endian 32-bit word at byte position pos of out
ReadUint32(out, pos) ==
    out[pos + 1] + 256 * out[pos + 2] + 65536 * out[pos + 3] + 16777216 * out[pos + 4]

\* the indices of the variable-size fields, in declaration order
VariableFields(fields) ==
    LET IsVariable(i) == ~FieldFixed(fields[i])
    IN  SelectSeq([i \in 1..Len(fields) |-> i], IsVariable)

\* the encoding of field i on its own
Payload(v, fields, i) == encodeValue(v[i], fields[i].type, fields[i].tag).out

\* where the k-th variable payload starts: after the fixed section and the
\* payloads before it
RECURSIVE PayloadStart(_, _, _, _)
PayloadStart(v, fields, vf, k) ==
    IF k = 1
      THEN FixedSectionSize(fields)
      ELSE PayloadStart(v, fields, vf, k - 1) + Len(Payload(v, fields, vf[k - 1]))

\* C5: the Marshal output of a struct is its fixed section (fixed-size fields in
\* place, a 4-byte little-endian offset per variable-size field) followed by the
\* variable payloads in declaration order; each offset is the distance from the
\* container's start to its payload, the first offset is the size of the fixed
\* section, offsets never decrease, and the last payload ends where the output ends.
C5_ContainerLayout ==
    codec.marshalled /\ ~codec.enc.err =>
        LET fields == CodecFields
            v == codec.value
            out == codec.enc.out
            vf == VariableFields(fields)
            Offset(k) == ReadUint32(out, FixedSectionPos(fields, vf[k]))
        IN  /\ Len(out) >= FixedSectionSize(fields)
            /\ \A i \in 1..Len(fields) :
                 FieldFixed(fields[i]) =>
                   SubSeq(out, FixedSectionPos(fields, i) + 1,
                          FixedSectionPos(fields, i) + FieldWidth(fields[i]))
                     = Payload(v, fields, i)
            /\ \A k \in 1..Len(vf) :
                 /\ Offset(k) = PayloadStart(v, fields, vf, k)
                 /\ SubSeq(out, Offset(k) + 1, Offset(k) + Len(Payload(v, fields, vf[k])))
                      = Payload(v, fields, vf[k])
                 /\ k = 1 => Offset(k) = FixedSectionSize(fields)
                 /\ k < Len(vf) => Offset(k) <= Offset(k + 1)
                 /\ k = Len(vf) => Offset(k) + Len(Payload(v, fields, vf[k])) = Len(out)
            /\ Len(vf) = 0 => Len(out) = FixedSectionSize(fields)

\* a struct with two non-empty variable payloads between fixed fields was marshalled
C5_Witness ==
    /\ codec.marshalled /\ ~codec.enc.err
    /\ codec.schema.name = "BooleanOffsetStruct"
    /\ Len(codec.value[3]) = 2
    /\ Len(codec.value[5]) = 1

\* some list of the value, at any depth, holds more elements than its declared maximum
RECURSIVE ListTooLong(_, _, _)
ListTooLong(v, t, ctx) ==
    CASE t.k = "slice" /\ ~ctx.isBitlist ->
           \/ ~ctxSize(ctx).ok /\ ctxMax(ctx).ok /\ Len(v) > ctxMax(ctx).v
           \/ \E i \in 1..Len(v) : ListTooLong(v[i], t.elem, shift(ctx))
      [] t.k = "array" ->
           \E i \in 1..Len(v) : ListTooLong(v[i], t.elem, shift(ctx))
      [] t.k = "struct" ->
           \E i \in 1..Len(t.fields) : ListTooLong(v[i], t.fields[i].type, t.fields[i].tag)
      [] OTHER -> FALSE

\* C6: Marshal returns an error whenever a list holds more elements than its
\* declared maximum, never rejects a value whose lists are all within their
\* maxima, and HashTreeRoot rejects exactly the same values.
C6_ListLengthCheck ==
    (\A i \in 1..Len(CodecFields) : ~CodecFields[i].tag.isBitlist) =>
        /\ codec.marshalled =>
             (codec.enc.err <=> ListTooLong(codec.value, CodecType, NoTag))
        /\ codec.hashed =>
             (codec.root.err <=> ListTooLong(codec.value, CodecType, NoTag))

\* a list one element over its declared maximum was rejected by both operations
C6_Witness ==
    /\ codec.marshalled /\ codec.hashed
    /\ codec.schema.name = "PSSZHTRListBench"
    /\ codec.schema.max = ListMax
    /\ Len(codec.value[1]) = ListMax + 1
    /\ codec.enc.err /\ codec.root.err

\* the zero-based position of the highest set bit of a non-zero byte
HighestSetBit(b) == CHOOSE p \in 0..7 : Pow(2, p) <= b /\ b < Pow(2, p + 1)

\* the number of bits a bitlist buffer holds, the length bit not counted
BitLength(buf) == 8 * (Len(buf) - 1) + HighestSetBit(buf[Len(buf)])

\* C7: bitlist validation, in Marshal and in HashTreeRoot, rejects the empty
\* buffer and every buffer whose last byte is 0x00, and for a declared maximum
\* Nmax > 0 accepts a buffer exactly when its bit length is at most Nmax.
C7_BitlistValidation ==
    codec.schema.name = "PSSZBitlistBench" =>
        LET buf == codec.value[1]
            Nmax == codec.schema.max
            malformed == Len(buf) = 0 \/ buf[Len(buf)] = 0
            accepted == ~malformed /\ BitLength(buf) <= Nmax
        IN  /\ codec.marshalled =>
                 /\ malformed => codec.enc.err
                 /\ Nmax > 0 => (~codec.enc.err <=> accepted)
            /\ codec.hashed =>
                 /\ malformed => codec.root.err
                 /\ Nmax > 0 => (~codec.root.err <=> accepted)

\* a bitlist of exactly Nmax = 8 bits was accepted by both operations
C7_Witness ==
    /\ codec.marshalled /\ codec.hashed
    /\ codec.schema = [name |-> "PSSZBitlistBench", max |-> 8]
    /\ codec.value[1] = <<3, 1>>
    /\ ~codec.enc.err /\ ~codec.root.err

\* C8: for a bitlist declared with Nmax = 0 the codec accepts the single byte
\* 0x01 and rejects every other buffer.
C8_BitlistMaxZero ==
    codec.schema = [name |-> "PSSZBitlistBench", max |-> 0] =>
        /\ codec.marshalled => (~codec.enc.err <=> codec.value[1] = <<1>>)
        /\ codec.hashed => (~codec.root.err <=> codec.value[1] = <<1>>)

\* a field that is a list or a vector of containers
IsContainerSeq(f) ==
    f.type.k \in {"slice", "array"} /\ ~f.tag.isBitlist /\ f.type.elem.k = "struct"

\* a field that is a list: a slice with no ssz-size that is not a bitlist
IsList(f) == f.type.k = "slice" /\ ~f.tag.isBitlist /\ ~ctxSize(f.tag).ok

\* each element's own hash tree root
ElementRoots(x, f) ==
    [i \in 1..Len(x) |-> hashValue(x[i], f.type.elem, shift(f.tag)).root]

\* the chunk limit of a sequence of composites: N for a vector, Nmax for a list
CompositeLimit(x, f) ==
    IF f.type.k = "array" THEN f.type.len
    ELSE IF ctxSize(f.tag).ok THEN ctxSize(f.tag).v
    ELSE IF ctxMax(f.tag).ok THEN ctxMax(f.tag).v
    ELSE Len(x)

\* the root of a field's content: of a list, what the length is mixed into
ContentOf(r, f) == IF IsList(f) /\ r[1] = "h" THEN r[2] ELSE r

\* C9: the root of a list or vector of containers merkleizes one chunk per
\* element, the element's own root, with limit N (vector) or Nmax (list),
\* whether or not the containers are of fixed size.
C9_CompositeMerkleization ==
    codec.hashed /\ ~codec.root.err =>
        \A i \in 1..Len(CodecFields) :
            IsContainerSeq(CodecFields[i]) =>
                ContentOf(codec.roots[i], CodecFields[i])
                  = merkleizeRoots(ElementRoots(codec.value[i], CodecFields[i]),
                                   CompositeLimit(codec.value[i], CodecFields[i])).root

\* the 32-byte little-endian encoding of a count
LengthChunk(n) == Chunk(LittleEndian(n, 8))

IsBasic(t) == t.k \in {"bool", "uint8", "uint16", "uint32", "uint64"}

\* the chunks of a sequence of basic values merkleized under the limit of n items
PackedRoot(x, f, n) ==
    merkleizeChunks(chunkify(encodeElems(x, f.type.elem, shift(f.tag), 1, <<>>).out),
                    calculateLimit(n, fixedSizeOfType(f.type.elem, shift(f.tag)).size)).root

\* C10: the root of a list is hash(content_root || L) with L the 32-byte
\* little-endian element count, the root of a bitlist the same with the bit
\* count (length bit excluded); the roots of vectors, byte arrays and containers
\* are their content roots, with no length mixed in.
C10_MixInLength ==
    codec.hashed /\ ~codec.root.err =>
        /\ codec.root.root = merkleizeRoots(codec.roots, Len(codec.roots)).root
        /\ codec.root.root # hashConcat(codec.root.root, LengthChunk(Len(codec.roots)))
        /\ \A i \in 1..Len(CodecFields) :
             LET f == CodecFields[i]
                 x == codec.value[i]
                 r == codec.roots[i]
             IN  CASE f.tag.isBitlist ->
                        r = hashConcat(
                              merkleizeChunks(chunkify(parseBitlist(x).content),
                                              bitlistChunkLimit(codec.schema.max)).root,
                              LengthChunk(BitLength(x)))
                   [] IsList(f) ->
                        /\ r[1] = "h"
                        /\ r[3] = LengthChunk(Len(x))
                        /\ IsBasic(f.type.elem) => r[2] = PackedRoot(x, f, ctxMax(f.tag).v)
                   [] f.type.k = "slice" /\ IsBasic(f.type.elem) ->
                        r = PackedRoot(x, f, ctxSize(f.tag).v)
                   [] f.type.k = "array" /\ f.type.elem.k = "uint8" ->
                        r = merkleizeChunks(chunkify(x), Len(chunkify(x))).root
                   [] f.type.k = "struct" ->
                        r = merkleizeRoots(hashFields(f.type.fields, x, 1, <<>>).roots,
                                           Len(f.type.fields)).root
                   [] OTHER -> TRUE

\* a struct holding a container, a vector and two non-empty lists was hashed
C10_Witness ==
    /\ codec.hashed /\ ~codec.root.err
    /\ codec.schema.name = "BeaconState"
    /\ Len(codec.value[3]) = 1
    /\ Len(codec.value[5]) = 2

-----------------------------------------------------------------------------
(* Merkleization: claim C11 *)

\* the smallest power of two that is at least n, for n >= 1
PaddedWidth(n) == CHOOSE p \in {Pow(2, e) : e \in 0..n} : p >= n /\ (p = 1 \/ p < 2 * n)

\* the root of the leaves lo..hi of the padded chunk array, top down
RECURSIVE SubtreeRoot(_, _, _)
SubtreeRoot(chunks, lo, hi) ==
    IF lo = hi
      THEN IF lo <= Len(chunks) THEN chunks[lo] ELSE ZeroChunk
      ELSE hashConcat(SubtreeRoot(chunks, lo, lo + (hi - lo + 1) \div 2 - 1),
                      SubtreeRoot(chunks, lo + (hi - lo + 1) \div 2, hi))

\* C11: merkleizing k chunks under limit L pads them with zero chunks to the
\* next power of two >= max(L, 1) and hashes adjacent pairs down to one root;
\* limit 0 counts as limit 1, so no chunks under limit 0 give the zero chunk;
\* k > max(L, 1) is an error and no root.
C11_Merkleize ==
    merkle.done =>
        LET lim == IF merkle.limit >= 1 THEN merkle.limit ELSE 1
        IN  /\ merkle.res.err <=> Len(merkle.chunks) > lim
            /\ ~merkle.res.err =>
                 merkle.res.root = SubtreeRoot(merkle.chunks, 1, PaddedWidth(lim))
            /\ Len(merkle.chunks) = 0 /\ merkle.limit = 0 =>
                 ~merkle.res.err /\ merkle.res.root = ZeroChunk

\* two chunks were merkleized under limit 3: a tree of four leaves, two of them padding
C11_Witness ==
    /\ merkle.done /\ ~merkle.res.err
    /\ merkle.limit = 3
    /\ merkle.chunks = <<Chunk(<<1>>), ZeroChunk>>
    /\ merkle.res.root = hashConcat(hashConcat(Chunk(<<1>>), ZeroChunk),
                                    hashConcat(ZeroChunk, ZeroChunk))

-----------------------------------------------------------------------------
(* Multiproofs: claims C12 and C13 *)

\* a is a proper ancestor of g
IsAncestor(a, g) == \E k \in 1..4 : g \div Pow(2, k) = a /\ a >= 1

\* g lies on the path from leaf l up to the root
OnPath(g, l) == g = l \/ IsAncestor(g, l)

\* the witness set of the leaves L
WitnessSet(L) ==
    {s \in Gindices : \E l \in L : \E g \in Gindices :
         g # 1 /\ OnPath(g, l) /\ s = (IF g % 2 = 0 THEN g + 1 ELSE g - 1)}
      \ ({a \in Gindices : \E l \in L : IsAncestor(a, l)} \cup L)

\* the nodes that can be computed from the nodes K by hashing pairs of children
RECURSIVE Computable(_, _)
Computable(K, n) ==
    IF n = 0 THEN K
    ELSE Computable(K \cup {g \in Gindices : 2 * g \in K /\ 2 * g + 1 \in K}, n - 1)

\* C12: the required indices of a non-empty set L of leaves are exactly the
\* siblings of the nodes (other than the root) on the paths from L to the root,
\* less L and its ancestors; among them is no leaf of L, no node that can be
\* computed from L and the other witnesses, and no index twice.
C12_RequiredIndices ==
    proof.stage = "required" =>
        LET L == Range(proof.indices)
            W == Range(proof.required)
        IN  /\ W = WitnessSet(L)
            /\ W \cap L = {}
            /\ \A w \in W : w \notin Computable(L \cup (W \ {w}), 4)
            /\ Cardinality(W) = Len(proof.required)

\* the witnesses of two leaves under different children of the root were computed
C12_Witness ==
    /\ proof.stage = "required"
    /\ proof.indices = <<13, 9>>
    /\ proof.required = <<12, 8, 7, 5>>

\* C13: VerifyMultiproof returns true on a proof built from the tree with the
\* tree's root, false once one witness is replaced by another value, and false
\* when the claimed root is not the root the proof recomputes.
C13_VerifyMultiproof ==
    proof.stage = "verified" =>
        /\ proof.tampered = 0 /\ proof.root = TreeNode(1) => proof.res = "true"
        /\ proof.tampered # 0 => proof.res = "false"
        /\ proof.root # TreeNode(1) => proof.res = "false"

\* no index asked for is an ancestor of another
DisjointSubtrees(indices) ==
    \A i, j \in 1..Len(indices) : ~IsAncestor(indices[i], indices[j])

\* what holds of VerifyMultiproof when the indices name disjoint subtrees
VerifyOnDisjointSubtrees ==
    proof.stage = "verified" /\ DisjointSubtrees(proof.indices) =>
        /\ proof.tampered = 0 /\ proof.root = TreeNode(1) => proof.res = "true"
        /\ proof.tampered # 0 => proof.res = "false"
        /\ proof.root # TreeNode(1) => proof.res = "false"

-----------------------------------------------------------------------------
(* rl: ApplyMutations, the gap mutation of an encoding *)

\* the longest payload of a mutated container, the largest gap size of a
\* mutation, and the longest mutation plan
MaxPayload == 2
MaxGap == 2
MaxPlan == 2

RECURSIVE guessFixedSizeByType(_)
RECURSIVE guessFixedSizeOfFields(_, _, _)

\* the struct arm of guessFixedSizeByType (every field of the schemas is exported)
guessFixedSizeOfFields(fields, i, sum) ==
    IF i > Len(fields)
      THEN sum
      ELSE LET s == guessFixedSizeByType(fields[i].type)
           IN  IF s = -1 THEN -1 ELSE guessFixedSizeOfFields(fields, i + 1, sum + s)

guessFixedSizeByType(typ) ==
    CASE typ.k \in {"bool", "uint8"} -> 1
      [] typ.k = "uint16" -> 2
      [] typ.k = "uint32" -> 4
      [] typ.k = "uint64" -> 8
      [] typ.k = "array" ->
           LET elemSize == guessFixedSizeByType(typ.elem)
           IN  IF elemSize > 0 THEN elemSize * typ.len ELSE -1
      [] typ.k = "struct" -> guessFixedSizeOfFields(typ.fields, 1, 0)
      [] OTHER -> -1

\* strconv.Atoi of the ssz-size tag, its error dropped: a tag that is not one
\* number reads as 0
atoiSizeTag(tag) == IF Len(tag.sizes) = 1 /\ tag.sizes[1] >= 0 THEN tag.sizes[1] ELSE 0

\* the size and the IsVariable flag ApplyMutations gives one field
fieldSlot(f) ==
    IF f.type.k = "slice"
      THEN IF Len(f.tag.sizes) # 0
             THEN LET n == atoiSizeTag(f.tag)
                      elemSize == guessFixedSizeByType(f.type.elem)
                  IN  [size |-> IF elemSize > 0 THEN n * elemSize ELSE n * 4,
                       isVar |-> FALSE]
             ELSE [size |-> 4, isVar |-> TRUE]
      ELSE LET size == guessFixedSizeByType(f.type)
           IN  IF size = -1 THEN [size |-> 4, isVar |-> TRUE]
                            ELSE [size |-> size, isVar |-> FALSE]

\* the FieldInfo list: each field's place in the fixed part
RECURSIVE fieldInfos(_, _, _, _)
fieldInfos(fields, i, currentFixedOffset, infos) ==
    IF i > Len(fields)
      THEN infos
      ELSE fieldInfos(fields, i + 1, currentFixedOffset + fieldSlot(fields[i]).size,
                      Append(infos, [FixedPartOffset |-> currentFixedOffset,
                                     IsVariable |-> fieldSlot(fields[i]).isVar,
                                     Name |-> fields[i].name]))

\* binary.LittleEndian.PutUint32(bytes[pos:], val)
PutUint32(bytes, pos, val) ==
    [j \in 1..Len(bytes) |->
        IF j > pos /\ j <= pos + 4 THEN encodeUint32(val)[j - pos] ELSE bytes[j]]

\* binary.LittleEndian.Uint32(bytes[pos:])
Uint32At(bytes, pos) ==
    bytes[pos + 1] + 256 * bytes[pos + 2] + 65536 * bytes[pos + 3] + 16777216 * bytes[pos + 4]

\* a variant that shifts only the first variable field's offset word
RECURSIVE updateFirstOffsetOnly(_, _, _, _)
updateFirstOffsetOnly(bytes, infos, i, gapSize) ==
    IF i > Len(infos)
      THEN bytes
      ELSE IF infos[i].IsVariable /\ infos[i].FixedPartOffset + 4 <= Len(bytes)
             THEN PutUint32(bytes, infos[i].FixedPartOffset,
                            Uint32At(bytes, infos[i].FixedPartOffset) + gapSize)
             ELSE updateFirstOffsetOnly(bytes, infos, i + 1, gapSize)

\* the loop that adds the gap size to every variable field's offset word
RECURSIVE updateOffsets(_, _, _, _)
updateOffsets(bytes, infos, i, gapSize) ==
    IF i > Len(infos)
      THEN bytes
      ELSE LET pOff == infos[i].FixedPartOffset
               next == IF infos[i].IsVariable /\ pOff + 4 <= Len(bytes)
                         THEN PutUint32(bytes, pOff, Uint32At(bytes, pOff) + gapSize)
                         ELSE bytes
           IN  updateOffsets(next, infos, i + 1, gapSize)

\* the indices of the fields flagged IsVariable
variableInfos(infos) ==
    LET IsVar(i) == infos[i].IsVariable
    IN  SelectSeq([i \in 1..Len(infos) |-> i], IsVar)

\* the loop over the mutations; gap holds the random bytes rand.Read would give
RECURSIVE applyLoop(_, _, _, _, _)
applyLoop(mutatedBytes, infos, mutations, m, gap) ==
    IF m > Len(mutations)
      THEN mutatedBytes
      ELSE IF mutations[m].Type = "Gap" /\ mutations[m].GapSize > 0
                /\ Len(variableInfos(infos)) # 0
             THEN LET ptrOffset == infos[variableInfos(infos)[1]].FixedPartOffset
                  IN  IF ptrOffset + 4 > Len(mutatedBytes)
                        THEN applyLoop(mutatedBytes, infos, mutations, m + 1, gap)
                        ELSE LET read == Uint32At(mutatedBytes, ptrOffset)
                                 currentHeapOffset ==
                                     IF read > Len(mutatedBytes) THEN Len(mutatedBytes)
                                                                  ELSE read
                                 newBytes ==
                                     SubSeq(mutatedBytes, 1, currentHeapOffset)
                                       \o SubSeq(gap, 1, mutations[m].GapSize)
                                       \o SubSeq(mutatedBytes, currentHeapOffset + 1,
                                                 Len(mutatedBytes))
                             IN  updateOffsets(newBytes, infos, 1, mutations[m].GapSize)
             ELSE applyLoop(mutatedBytes, infos, mutations, m + 1, gap)

ApplyMutations(encoding, mutations, targetSchema, gap) ==
    IF Len(mutations) = 0
      THEN encoding
      ELSE applyLoop(encoding, fieldInfos(targetSchema.fields, 1, 0, <<>>), mutations, 1, gap)

\* the containers of package schemas that are mutated, their paddings left out
\* and their maxima scaled down to MaxPayload
GapSchemaNames ==
    {"GapPairStruct", "GapScatterStruct", "BitvectorOffsetStruct",
     "HardBooleanStruct", "BooleanPairStruct"}

GapSchema(name) ==
    LET Payload_(n) == Field(n, SliceT(ByteT), MaxTag(MaxPayload))
    IN  CASE name = "GapPairStruct" ->
               StructT(<<Field("Magic", Uint64T, NoTag),
                         Payload_("PayloadA"), Payload_("PayloadB")>>)
          [] name = "GapScatterStruct" ->
               StructT(<<Field("Magic", Uint64T, NoTag),
                         Payload_("PayloadA"),
                         Field("Stamp", BasicT("uint32"), NoTag),
                         Payload_("PayloadB"),
                         Field("Version", BasicT("uint16"), NoTag),
                         Payload_("PayloadC"), Payload_("PayloadD")>>)
          [] name = "BitvectorOffsetStruct" ->
               StructT(<<Field("Magic", Uint64T, NoTag),
                         Field("BitsA", ArrayT(ByteT, 1), SizeTag(1)),
                         Payload_("PayloadA"),
                         Field("BitsB", ArrayT(ByteT, 1), SizeTag(1)),
                         Payload_("PayloadB")>>)
          [] name = "HardBooleanStruct" ->
               StructT(<<Field("Magic", Uint64T, NoTag),
                         Payload_("Name"),
                         Field("Age", Uint64T, NoTag),
                         Field("Meta", SliceT(Uint64T), SizeTag(4)),
                         Field("Target", BoolT, NoTag)>>)
          [] name = "BooleanPairStruct" ->
               StructT(<<Field("Magic", Uint64T, NoTag),
                         Field("FlagA", BoolT, NoTag),
                         Field("FlagB", BoolT, NoTag)>>)

GapPayloads == SeqsUpTo({7}, MaxPayload)

GapValues(name) ==
    CASE name = "GapPairStruct" ->
           {<<513, a, b>> : a \in GapPayloads, b \in GapPayloads}
      [] name = "GapScatterStruct" ->
           {<<513, a, 9, b, 5, c, d>> :
               a \in GapPayloads, b \in GapPayloads, c \in {<<>>, <<7>>}, d \in {<<>>, <<7>>}}
      [] name = "BitvectorOffsetStruct" ->
           {<<513, <<5>>, a, <<10>>, b>> : a \in GapPayloads, b \in GapPayloads}
      [] name = "HardBooleanStruct" ->
           {<<513, a, 30, <<1, 2, 3, 4>>, TRUE>> : a \in GapPayloads}
      [] name = "BooleanPairStruct" -> {<<513, TRUE, FALSE>>}

\* concretizer.Mutation: a gap of some size, or a value or offset mutation
Mutations ==
    [Type : {"Gap"}, GapSize : 0..MaxGap] \cup [Type : {"Value", "Offset"}, GapSize : {0}]

\* the bytes rand.Read may write into a gap
GapFills == {[j \in 1..MaxGap |-> 0], [j \in 1..MaxGap |-> 170]}

\* an encoding of a schema value, a plan, and what ApplyMutations returned
MutationInputs ==
    UNION {{[schema |-> n, sszBytes |-> Marshal(v, GapSchema(n)).out, mutations |-> ms,
             done |-> FALSE, gap |-> <<>>, out |-> <<>>] :
               v \in GapValues(n), ms \in SeqsUpTo(Mutations, MaxPlan)} :
           n \in GapSchemaNames}

MutationInit == InitFuzzer /\ Idle("mutation") /\ mutation \in MutationInputs

CallApplyMutations ==
    /\ ~mutation.done
    /\ \E gap \in GapFills :
         mutation' = [mutation EXCEPT
                        !.done = TRUE,
                        !.gap = gap,
                        !.out = ApplyMutations(mutation.sszBytes, mutation.mutations,
                                               GapSchema(mutation.schema), gap)]
    /\ UNCHANGED oracleVars /\ Frame("mutation")

NextMutation == CallApplyMutations

SpecMutation == MutationInit /\ [][NextMutation]_vars

-----------------------------------------------------------------------------
(* C14 *)

\* the gap mutations of the plan that ask for a gap of positive size
EffectiveGaps(mutations) ==
    LET IsGap(i) == mutations[i].Type = "Gap" /\ mutations[i].GapSize > 0
    IN  SelectSeq([i \in 1..Len(mutations) |-> i], IsGap)

\* the positions of the offset words of a container's encoding, by the codec's layout
OffsetWordPositions(fields) ==
    {FixedSectionPos(fields, i) : i \in {j \in 1..Len(fields) : ~FieldFixed(fields[j])}}

\* C14: a plan with a gap mutation of size k > 0, applied to the encoding B of a
\* container with a variable-size field, returns len(B) + k bytes: the k gap
\* bytes sit immediately before the first variable payload, every offset word is
\* k more than in B, every other byte of B is kept in order, and only the
\* first gap of the plan is applied.
C14_GapInsertion ==
    LET fields == GapSchema(mutation.schema).fields
        B == mutation.sszBytes
        out == mutation.out
        gaps == EffectiveGaps(mutation.mutations)
        words == OffsetWordPositions(fields)
    IN  mutation.done /\ words # {} /\ Len(gaps) # 0 =>
          LET k == mutation.mutations[gaps[1]].GapSize
              start == FixedSectionSize(fields)
              InWord(j) == \E w \in words : j > w /\ j <= w + 4
          IN  /\ Len(out) = Len(B) + k
              /\ SubSeq(out, start + 1, start + k) = SubSeq(mutation.gap, 1, k)
              /\ SubSeq(out, start + k + 1, Len(out)) = SubSeq(B, start + 1, Len(B))
              /\ \A w \in words : ReadUint32(out, w) = ReadUint32(B, w) + k
              /\ \A j \in 1..start : ~InWord(j) => out[j] = B[j]

\* a plan with two gaps of different positive sizes was applied to a container
\* with several non-empty payloads between fixed fields
C14_Witness ==
    /\ mutation.done
    /\ mutation.schema = "GapScatterStruct"
    /\ Len(EffectiveGaps(mutation.mutations)) = 2
    /\ mutation.mutations[1].GapSize # mutation.mutations[2].GapSize
    /\ Len(mutation.out) > Len(mutation.sszBytes)
    /\ Cardinality(OffsetWordPositions(GapSchema(mutation.schema).fields)) = 4
    /\ Len(mutation.sszBytes) > FixedSectionSize(GapSchema(mutation.schema).fields) + 2

-----------------------------------------------------------------------------
(* spec: the partitions and GenericAnalyzer.GetDomains *)

\* the machine word, scaled down from 64 bits; shifts and sums wrap at its width
WordBits == 30
MaxUint64 == Pow(2, WordBits) - 1

\* uint64(1) << n: a shift by the word's width or more gives 0
Shl1(n) == IF n >= WordBits THEN 0 ELSE Pow(2, n)
\* x + 1 and x - 1 on the machine word
Inc(x) == IF x = MaxUint64 THEN 0 ELSE x + 1
Dec(x) == IF x = 0 THEN MaxUint64 ELSE x - 1

\* domains.Bucket: its id and its closed range
Bucket(id, min, max) == [ID |-> id, Min |-> min, Max |-> max]
RangeID(min, max) == ToString(min) \o ".." \o ToString(max)

\* the loop of GenerateUintBuckets over k
RECURSIVE uintBucketLoop(_, _, _, _, _)
uintBucketLoop(k, bitSize, maxValForType, currentMin, buckets) ==
    IF ~(k < bitSize)
      THEN [currentMin |-> currentMin, buckets |-> buckets]
      ELSE LET shifted == Dec(Shl1(k + 1))
               upperBound == IF shifted > maxValForType THEN maxValForType ELSE shifted
               fits == currentMin <= upperBound
               nextMin == IF fits THEN Inc(upperBound) ELSE currentMin
               nextBuckets ==
                   IF fits
                     THEN Append(buckets, Bucket(RangeID(currentMin, upperBound),
                                                 currentMin, upperBound))
                     ELSE buckets
           IN  IF nextMin > maxValForType
                 THEN [currentMin |-> nextMin, buckets |-> nextBuckets]
                 ELSE uintBucketLoop(k + 1, bitSize, maxValForType, nextMin, nextBuckets)

GenerateUintBuckets(bitSize) ==
    LET maxValForType == IF bitSize < WordBits THEN Dec(Shl1(bitSize)) ELSE MaxUint64
        zero == <<Bucket("Zero", 0, 0)>>
        withOne == IF 1 <= maxValForType THEN Append(zero, Bucket("One", 1, 1)) ELSE zero
        currentMin == IF 1 <= maxValForType THEN 2 ELSE 1
        loop == uintBucketLoop(1, bitSize, maxValForType, currentMin, withOne)
        buckets ==
            IF loop.currentMin <= maxValForType
              THEN Append(loop.buckets,
                          Bucket(RangeID(loop.currentMin, maxValForType),
                                 loop.currentMin, maxValForType))
              ELSE loop.buckets
        NonEmpty(b) == b.Min <= b.Max
    IN  SelectSeq(buckets, NonEmpty)

BoolBuckets == <<Bucket("False", 0, 0), Bucket("True", 1, 1), Bucket("Dirty", 2, 255)>>

\* ByteContentBuckets once init() has appended its placeholder buckets
ByteContentBuckets ==
    <<Bucket("Zero", 0, 0), Bucket("One", 1, 1),
      Bucket("MidRange", 2, 127), Bucket("HighRange", 128, 255)>>
      \o [i \in 1..253 |-> Bucket("Dummy_Byte_" \o ToString(i + 1), i + 1, i + 1)]

SliceLengthBuckets ==
    <<Bucket("Empty", 0, 0), Bucket("MinLen", 1, 1), Bucket("SmallLen", 2, 16),
      Bucket("MidLen", 17, 256), Bucket("MaxLen", 257, MaxUint64)>>

ContainerDefaultBucket == <<Bucket("Default", 0, 0)>>

\* the six buckets over the count of appended bytes
TailBuckets ==
    <<Bucket("NoTail", 0, 0), Bucket("OneByte", 1, 1), Bucket("SmallTail", 2, 4),
      Bucket("MediumTail", 5, 16), Bucket("LargeTail", 17, 64),
      Bucket("SaturatingTail", 65, MaxUint64)>>

\* domains.FieldAspect
Aspect(id, buckets) == [ID |-> id, Buckets |-> buckets]

\* the ssz-max tag read by strconv.Atoi, a bitlist's maximum turned into bytes
resolvedMaxLen(tag) ==
    LET m == IF Len(tag.maxes) = 1 /\ tag.maxes[1] >= 0 THEN tag.maxes[1] ELSE MaxUint64
    IN  IF tag.isBitlist /\ m # MaxUint64 THEN (m + 7) \div 8 ELSE m

\* one length bucket capped to the resolved maximum
capBucket(bucket, maxLen) ==
    LET max == IF bucket.Max > maxLen THEN maxLen ELSE bucket.Max
        min == IF bucket.Min > max THEN max ELSE bucket.Min
    IN  Bucket(bucket.ID, min, max)

\* the length buckets kept after capping
validLengthBuckets(tag) ==
    LET capped == [i \in 1..Len(SliceLengthBuckets) |->
                     capBucket(SliceLengthBuckets[i], resolvedMaxLen(tag))]
        Valid(b) == \/ b.Min <= b.Max /\ b.Max > 0
                    \/ b.ID = "Empty" /\ b.Min = 0 /\ b.Max = 0
    IN  SelectSeq(capped, Valid)

\* fieldType.Bits() of the unsigned kinds the analysed schemas use
Bits(kind) ==
    CASE kind = "uint8" -> 8
      [] kind = "uint16" -> 16
      [] kind = "uint64" -> WordBits

\* the aspects GetDomains gives a field by its kind
aspectsOfKind(field) ==
    CASE field.type.k \in {"uint8", "uint16", "uint64"} ->
           <<Aspect("Value", GenerateUintBuckets(Bits(field.type.k)))>>
      [] field.type.k = "bool" -> <<Aspect("Value", BoolBuckets)>>
      [] field.type.k = "array" ->
           IF field.type.elem.k = "uint8"
             THEN <<Aspect("ElementValue", ByteContentBuckets)>>
             ELSE <<Aspect("Default", ContainerDefaultBucket)>>
      [] field.type.k = "slice" ->
           <<Aspect("Length", validLengthBuckets(field.tag)),
             Aspect("Offset", <<Bucket("CanonicalOffset", 0, 0), Bucket("GapOffset", 4, 100)>>),
             IF field.type.elem.k = "uint8"
               THEN Aspect("ElementValue", ByteContentBuckets)
               ELSE Aspect("Default", ContainerDefaultBucket)>>
             \o IF field.tag.isBitlist
                  THEN <<Aspect("BitlistSentinel",
                                <<Bucket("Canonical", 0, 0), Bucket("NullSentinel", 0, 0)>>)>>
                  ELSE <<>>
      [] OTHER -> <<Aspect("Default", ContainerDefaultBucket)>>

\* every field of the schemas is exported and none is named with "_": the last
\* exported field is the last field
GetDomains(typ) ==
    [i \in 1..Len(typ.fields) |->
        [FieldName |-> typ.fields[i].name,
         Aspects |-> aspectsOfKind(typ.fields[i])
                       \o IF i = Len(typ.fields) THEN <<Aspect("Tail", TailBuckets)>>
                                                 ELSE <<>>]]

\* the ssz-max values the analysed schemas are declared with
TagMaxima == {0, 1, 2, 16, 17, 256, 257, 2048}

AnalyzedSchemas ==
    [name : {"BooleanOffsetStruct", "PSSZBoolBench", "PSSZBitlistBench", "PSSZByteListBench",
             "PSSZHTRListBench", "PSSZHeaderListBench", "BeaconState"},
     max : TagMaxima]

\* a schema and what GetDomains returned for it
DomainInputs == {[schema |-> id, done |-> FALSE, results |-> <<>>] : id \in AnalyzedSchemas}

DomainsInit == InitFuzzer /\ Idle("domains") /\ domains \in DomainInputs

CallGetDomains ==
    /\ ~domains.done
    /\ domains' = [domains EXCEPT !.done = TRUE,
                                  !.results = GetDomains(TypeOf(domains.schema))]
    /\ UNCHANGED oracleVars /\ Frame("domains")

NextDomains == CallGetDomains

SpecDomains == DomainsInit /\ [][NextDomains]_vars

-----------------------------------------------------------------------------
(* C15 *)

\* two buckets share a value
Overlap(a, b) == a.Min <= b.Max /\ b.Min <= a.Max

PartitionAspects == {"Value", "ElementValue", "Length", "Offset", "Tail"}

\* the buckets of the aspect named id of field i are pairwise disjoint
AspectDisjoint(id) ==
    \A i \in 1..Len(domains.results) :
      \A a \in 1..Len(domains.results[i].Aspects) :
        LET asp == domains.results[i].Aspects[a]
        IN  asp.ID = id =>
              \A x, y \in 1..Len(asp.Buckets) :
                x # y => ~Overlap(asp.Buckets[x], asp.Buckets[y])

\* C15: in the domains GetDomains returns, the buckets of every field's Value,
\* ElementValue, Length, Offset and Tail aspect are pairwise disjoint, the
\* length buckets capped to the declared maximum included.
C15_BucketsDisjoint ==
    domains.done => \A id \in PartitionAspects : AspectDisjoint(id)

\* the part of C15 that holds: the Offset and Tail aspects
C15_OffsetAndTailDisjoint ==
    domains.done => AspectDisjoint("Offset") /\ AspectDisjoint("Tail")

-----------------------------------------------------------------------------
(* schemas: DebugUnion.UnmarshalSSZ *)

\* the longest buffer handed to the union decoder
MaxUnionLen == 10

\* buffers: a selector byte, then bytes of payload or tail
UnionBuffers ==
    {<<>>} \cup UNION {{<<sel>> \o rest : sel \in {0, 1, 2}, rest \in [1..n -> {0, 7}]} :
                       n \in 0..(MaxUnionLen - 1)}

\* the decoded union keeps its uint64 Value as its eight little-endian bytes
UnmarshalSSZ(buf, u) ==
    IF Len(buf) < 1
      THEN [err |-> "ErrSize", u |-> u]
      ELSE LET sel == [u EXCEPT !.Selector = buf[1]]
           IN  CASE buf[1] = 0 -> [err |-> "nil", u |-> sel]
                 [] buf[1] = 1 ->
                      IF Len(buf) < 1 + 8
                        THEN [err |-> "ErrSize", u |-> sel]
                        ELSE [err |-> "nil", u |-> [sel EXCEPT !.Value = SubSeq(buf, 2, 9)]]
                 [] OTHER -> [err |-> "invalid selector", u |-> sel]

\* a buffer, the zero DebugUnion, and what UnmarshalSSZ returned
UnionInputs ==
    {[buf |-> b, done |-> FALSE, err |-> "nil",
      u |-> [Selector |-> 0, Value |-> [i \in 1..8 |-> 0]]] : b \in UnionBuffers}

UnionInit == InitFuzzer /\ Idle("union") /\ union \in UnionInputs

CallUnmarshalSSZ ==
    /\ ~union.done
    /\ LET r == UnmarshalSSZ(union.buf, union.u)
       IN  union' = [union EXCEPT !.done = TRUE, !.err = r.err, !.u = r.u]
    /\ UNCHANGED oracleVars /\ Frame("union")

NextUnion == CallUnmarshalSSZ

SpecUnion == UnionInit /\ [][NextUnion]_vars

-----------------------------------------------------------------------------
(* C16 *)

\* where the variant the selector names ends: the selector byte alone for None,
\* the selector and eight bytes for the uint64 variant
VariantEnd(buf) == IF buf[1] = 0 THEN 1 ELSE 9

\* C16: decoding a union never succeeds on a buffer with bytes past the end of
\* the selected variant; a None selector followed by any byte is rejected.
C16_UnionTrailingRejected ==
    union.done /\ Len(union.buf) >= 1 /\ Len(union.buf) > VariantEnd(union.buf)
        => union.err # "nil"

\* what does hold: an empty buffer, an unknown selector and a truncated uint64
\* variant are rejected
C16_ShortOrUnknownRejected ==
    union.done /\ (Len(union.buf) < 1 \/ union.buf[1] > 1
                   \/ (union.buf[1] = 1 /\ Len(union.buf) < 9))
        => union.err # "nil"

-----------------------------------------------------------------------------
(* oracle: RoundTrip *)

\* the longest buffer an interface target is handed or returns
MaxDataLen == 2

\* an error value: its message and the sentinel errors errors.Is finds in its chain
NilError == [msg |-> "nil", chain |-> {}]
NewError(name) == [msg |-> name, chain |-> {name}]
\* fmt.Errorf with one %w verb wrapping the error wrapped
Errorf(msg, wrapped) == [msg |-> msg, chain |-> wrapped.chain]
ErrorsIs(err, name) == name \in err.chain

\* DebugUnion.MarshalSSZ; Value is kept as its eight little-endian bytes
MarshalSSZ(u) ==
    LET sel == u.Selector % 2
    IN  IF sel = 0 THEN [err |-> NilError, out |-> <<0>>]
                   ELSE [err |-> NilError, out |-> <<1>> \o u.Value]

\* RoundTripTarget: the DebugUnion of package schemas, or any type whose
\* UnmarshalSSZ and MarshalSSZ answer as the record says
TargetUnmarshalSSZ(target, data) ==
    IF target.name = "DebugUnion"
      THEN LET r == UnmarshalSSZ(data, [Selector |-> 0, Value |-> [i \in 1..8 |-> 0]])
           IN  [err |-> IF r.err = "nil" THEN NilError ELSE NewError(r.err), obj |-> r.u]
      ELSE [err |-> target.unmarshalErr, obj |-> data]

TargetMarshalSSZ(target, decoded) ==
    IF target.name = "DebugUnion"
      THEN MarshalSSZ(decoded)
      ELSE [err |-> target.marshalErr, out |-> target.out]

\* a variant that never compares the re-encoded bytes with the input
RoundTripNoCompare(target, data) ==
    LET dec == TargetUnmarshalSSZ(target, data)
        enc == TargetMarshalSSZ(target, dec.obj)
    IN  IF dec.err # NilError
          THEN [msg |-> "oracle: invalid input", chain |-> {"ErrInvalidInput"}]
          ELSE IF enc.err # NilError
                 THEN Errorf("oracle: marshal failed", enc.err)
                 ELSE NilError

RoundTrip(target, data) ==
    LET dec == TargetUnmarshalSSZ(target, data)
        enc == TargetMarshalSSZ(target, dec.obj)
    IN  IF dec.err # NilError
          THEN [msg |-> "oracle: invalid input", chain |-> {"ErrInvalidInput"}]
          ELSE IF enc.err # NilError
                 THEN Errorf("oracle: marshal failed", enc.err)
                 ELSE IF enc.out # data
                        THEN [msg |-> "oracle: bug triggered", chain |-> {}]
                        ELSE NilError

DataBuffers == SeqsUpTo({0, 7}, MaxDataLen)

RoundTripTargets ==
    [name : {"Target"},
     unmarshalErr : {NilError, NewError("ErrSize")},
     marshalErr : {NilError, NewError("ErrListTooBig")},
     out : DataBuffers]

\* a target, the bytes, and what RoundTrip returned
RoundTripInputs ==
    {[target |-> [name |-> "DebugUnion"], data |-> b, done |-> FALSE, err |-> NilError] :
        b \in UnionBuffers}
      \cup {[target |-> t, data |-> b, done |-> FALSE, err |-> NilError] :
              t \in RoundTripTargets, b \in DataBuffers}

RoundTripInit == InitFuzzer /\ Idle("roundtrip") /\ roundtrip \in RoundTripInputs

CallRoundTrip ==
    /\ ~roundtrip.done
    /\ roundtrip' = [roundtrip EXCEPT !.done = TRUE,
                                      !.err = RoundTrip(roundtrip.target, roundtrip.data)]
    /\ UNCHANGED oracleVars /\ Frame("roundtrip")

NextRoundTrip == CallRoundTrip

SpecRoundTrip == RoundTripInit /\ [][NextRoundTrip]_vars

-----------------------------------------------------------------------------
(* C17 *)

\* what the target answers on the bytes of the call
Decoded == TargetUnmarshalSSZ(roundtrip.target, roundtrip.data)
Reencoded == TargetMarshalSSZ(roundtrip.target, Decoded.obj)
BugTriggered(err) == err.msg = "oracle: bug triggered"

\* C17: RoundTrip returns an error wrapping ErrInvalidInput iff UnmarshalSSZ
\* rejects the bytes; a 'bug triggered' error not wrapping ErrInvalidInput iff
\* decoding and re-encoding succeed and the bytes differ; nil iff they succeed
\* and the bytes are equal; a MarshalSSZ failure gives an error that does not
\* wrap ErrInvalidInput.
C17_RoundTripOutcomes ==
    roundtrip.done =>
        LET err == roundtrip.err
            decodeOk == Decoded.err = NilError
            encodeOk == Reencoded.err = NilError
        IN  /\ ErrorsIs(err, "ErrInvalidInput") <=> ~decodeOk
            /\ (BugTriggered(err) /\ ~ErrorsIs(err, "ErrInvalidInput"))
                 <=> (decodeOk /\ encodeOk /\ Reencoded.out # roundtrip.data)
            /\ err = NilError <=> (decodeOk /\ encodeOk /\ Reencoded.out = roundtrip.data)
            /\ decodeOk /\ ~encodeOk
                 => err # NilError /\ ~BugTriggered(err) /\ ~ErrorsIs(err, "ErrInvalidInput")

\* a union with selector 0 and a trailing byte went through RoundTrip and was
\* reported as a bug
C17_Witness ==
    /\ roundtrip.done
    /\ roundtrip.target.name = "DebugUnion"
    /\ roundtrip.data = <<0, 7>>
    /\ BugTriggered(roundtrip.err)

-----------------------------------------------------------------------------
(* rl: RunUntilBugMetrics and RunSchemaValidationMetrics *)

\* the largest budget and the latest reading of the clock, in ticks; the most
\* episodes asked for; the most steps of one episode or one validation run
MaxBudget == 1
MaxEpisodes == 2
MaxSteps == 2
MaxClock == MaxBudget + 1

\* RunMetrics and the error returned with it
RunMetrics(found, bugStep) == [BugFound |-> found, BugStep |-> bugStep]
NoMetrics == RunMetrics(FALSE, 0)

\* a variant of the budget test that never fires
budgetNeverExceeded(elapsed, budget) == FALSE

\* time.Since(start) > budget
budgetExceeded(elapsed, budget) == elapsed > budget

\* a campaign: its arguments, where it stands, the time since start, the reading
\* of the clock at the budget test that let the coming step pass, the calls of agent.Act and of the
\* environment's or the oracle's step so far, and what it returned
CampaignInputs ==
    LET Fresh(runner, episodes, maxSteps) ==
          [runner : {runner}, budget : 0..MaxBudget, episodes : episodes, maxSteps : maxSteps,
           at : {"start"}, ep : {0}, clock : {0}, tested : {-1}, acts : {0}, steps : {0},
           epSteps : {0}, preflightBug : {FALSE}, metrics : {NoMetrics}, err : {"none"}]
    IN  Fresh("RunUntilBugMetrics", 0..MaxEpisodes, {MaxSteps})
          \cup Fresh("RunSchemaValidationMetrics", {0}, 0..MaxSteps)

CampaignInit == InitFuzzer /\ Idle("campaign") /\ campaign \in CampaignInputs

\* a return of the runner
Return(c, metrics, err) == [c EXCEPT !.at = "returned", !.metrics = metrics, !.err = err]

\* the wall clock moves while the campaign runs
Tick ==
    /\ campaign.at \in {"episode", "test", "step"}
    /\ campaign.clock < MaxClock
    /\ campaign' = [campaign EXCEPT !.clock = @ + 1]
    /\ UNCHANGED oracleVars /\ Frame("campaign")

\* NewFuzzingEnv fails, or gives an environment whose fuzzer is or is not an
\* InProcessFuzzer
NewFuzzingEnv ==
    /\ campaign.runner = "RunUntilBugMetrics" /\ campaign.at = "start"
    /\ \E ok \in BOOLEAN, inProcess \in BOOLEAN :
         campaign' = IF ~ok
                       THEN Return(campaign, NoMetrics, "failed to create fuzzing environment")
                       ELSE [campaign EXCEPT !.at = IF inProcess THEN "preflight" ELSE "episode"]
    /\ UNCHANGED oracleVars /\ Frame("campaign")

\* ipf.PreflightChecks() runs, step by step, while the campaign waits for it
RunPreflight ==
    /\ campaign.at = "preflight"
    /\ \/ op = "none" /\ PreflightChecks
       \/ RefSizeSSZ \/ RefMarshal \/ RefHashRoot \/ RefProofTree \/ RefTreeHash
       \/ RefProveMulti \/ RefVerifyMultiproof \/ PreflightNext \/ checkMaxViolation

\* PreflightChecks came back, or a panic left it
AfterPreflight ==
    /\ campaign.at = "preflight" /\ op = "PreflightChecks" /\ pc = "idle"
    /\ campaign' =
         IF propagated
           THEN [campaign EXCEPT !.at = "panicked"]
           ELSE IF bugTriggered
                  THEN Return([campaign EXCEPT !.preflightBug = TRUE],
                              RunMetrics(TRUE, 0), "nil")
                  ELSE [campaign EXCEPT !.at = "episode"]
    /\ UNCHANGED oracleVars /\ Frame("campaign")

\* the head of the loop over the episodes: env.Reset, or the return after the
\* last episode
EpisodeLoop ==
    /\ campaign.runner = "RunUntilBugMetrics" /\ campaign.at = "episode"
    /\ LET episodes == IF campaign.episodes <= 0 THEN 1 ELSE campaign.episodes
       IN  campaign' = IF campaign.ep < episodes
                         THEN [campaign EXCEPT !.at = "test", !.epSteps = 0]
                         ELSE Return(campaign, RunMetrics(FALSE, 0), "ErrBudgetExceeded")
    /\ UNCHANGED oracleVars /\ Frame("campaign")

\* the budget test at the head of the inner loop
TestBudget ==
    /\ campaign.runner = "RunUntilBugMetrics" /\ campaign.at = "test"
    /\ campaign' = IF budgetExceeded(campaign.clock, campaign.budget)
                     THEN Return(campaign, RunMetrics(FALSE, 0), "ErrBudgetExceeded")
                     ELSE [campaign EXCEPT !.at = "step", !.tested = campaign.clock]
    /\ UNCHANGED oracleVars /\ Frame("campaign")

\* agent.Act and env.Step; the environment ends the episode after MaxSteps steps
\* at the latest
StepEnv ==
    /\ campaign.runner = "RunUntilBugMetrics" /\ campaign.at = "step"
    /\ \E stepDone \in BOOLEAN, bugTriggerStep \in 0..MaxSteps, stepErr \in BOOLEAN :
         LET c == [campaign EXCEPT !.acts = @ + 1, !.steps = @ + 1, !.epSteps = @ + 1,
                                   !.tested = -1]
             done == stepDone \/ c.epSteps >= MaxSteps
         IN  campaign' =
               IF stepErr
                 THEN Return(c, NoMetrics, "environment step failed")
                 ELSE IF bugTriggerStep > 0
                        THEN Return(c, RunMetrics(TRUE, bugTriggerStep), "nil")
                        ELSE IF done THEN [c EXCEPT !.at = "episode", !.ep = @ + 1]
                                     ELSE [c EXCEPT !.at = "test"]
    /\ UNCHANGED oracleVars /\ Frame("campaign")

\* RunSchemaValidationMetrics up to its loop: the case lookup, the oracle's name
\* or pyssz.NewOracle may fail
SchemaSetup ==
    /\ campaign.runner = "RunSchemaValidationMetrics" /\ campaign.at = "start"
    /\ \E failure \in {"none", "unknown case", "schema validation requires pyssz oracle",
                       "failed to initialize py-ssz oracle"} :
         campaign' =
           IF failure # "none"
             THEN Return(campaign, NoMetrics, failure)
             ELSE [campaign EXCEPT !.at = "test",
                                   !.maxSteps = IF @ <= 0 THEN 1 ELSE @]
    /\ UNCHANGED oracleVars /\ Frame("campaign")

\* the loop condition and the budget test of RunSchemaValidationMetrics
SchemaTestBudget ==
    /\ campaign.runner = "RunSchemaValidationMetrics" /\ campaign.at = "test"
    /\ campaign' =
         IF ~(campaign.steps < campaign.maxSteps)
           THEN Return(campaign, RunMetrics(FALSE, 0), "ErrBudgetExceeded")
           ELSE IF budgetExceeded(campaign.clock, campaign.budget)
                  THEN Return(campaign, RunMetrics(FALSE, 0), "ErrBudgetExceeded")
                  ELSE [campaign EXCEPT !.at = "step", !.tested = campaign.clock]
    /\ UNCHANGED oracleVars /\ Frame("campaign")

\* agent.Act and the batch of oracle.SchemaCheck calls
SchemaStep ==
    /\ campaign.runner = "RunSchemaValidationMetrics" /\ campaign.at = "step"
    /\ \E checkErr \in BOOLEAN, found \in BOOLEAN :
         LET c == [campaign EXCEPT !.acts = @ + 1, !.tested = -1]
             stepped == [c EXCEPT !.steps = @ + 1]
         IN  campaign' =
               IF checkErr
                 THEN Return(c, NoMetrics, "schema check failed")
                 ELSE IF found
                        THEN Return(stepped, RunMetrics(TRUE, stepped.steps), "nil")
                        ELSE [stepped EXCEPT !.at = "test"]
    /\ UNCHANGED oracleVars /\ Frame("campaign")

NextCampaign ==
    \/ Tick
    \/ NewFuzzingEnv
    \/ RunPreflight
    \/ AfterPreflight
    \/ EpisodeLoop
    \/ TestBudget
    \/ StepEnv
    \/ SchemaSetup
    \/ SchemaTestBudget
    \/ SchemaStep

SpecCampaign == CampaignInit /\ [][NextCampaign]_vars

-----------------------------------------------------------------------------
(* C18, C19 *)

\* PreflightChecks recorded a bug kind and the campaign has left it
PreflightTriggered ==
    /\ op = "PreflightChecks" /\ pc = "idle"
    /\ signature.BugFoundCount > 0
    /\ campaign.at # "preflight"

StoppedAtPreflight ==
    /\ campaign.at = "returned"
    /\ campaign.metrics = RunMetrics(TRUE, 0)
    /\ campaign.err = "nil"
    /\ campaign.acts = 0 /\ campaign.steps = 0

\* C18: when a preflight check triggers a bug kind the campaign returns at once
\* with BugFound = true, BugStep = 0 and a nil error, no agent action and no
\* environment step having run.
C18_PreflightBugStops == PreflightTriggered => StoppedAtPreflight

\* the part of C18 that holds: when PreflightChecks returns, the campaign stops
\* exactly as C18 says
C18_ReturnedPreflightBugStops == PreflightTriggered /\ ~propagated => StoppedAtPreflight

\* a step is about to run: the budget test before it read a time within budget
StepWithinBudget ==
    campaign.at = "step" => campaign.tested >= 0 /\ campaign.tested <= campaign.budget

\* the error is nil exactly when a bug was found, and a bug found by a step
\* carries a positive step
ReturnConsistent ==
    campaign.at = "returned" =>
        /\ campaign.err = "nil" <=> campaign.metrics.BugFound
        /\ campaign.metrics.BugFound /\ ~campaign.preflightBug => campaign.metrics.BugStep > 0

\* the loop head reached past the budget returns BudgetExceeded and runs nothing
ExceededReturns ==
    /\ campaign.at = "test" /\ campaign.clock > campaign.budget
    /\ campaign'.clock = campaign.clock
    => /\ campaign'.at = "returned"
       /\ campaign'.err = "ErrBudgetExceeded"
       /\ ~campaign'.metrics.BugFound
       /\ campaign'.steps = campaign.steps /\ campaign'.acts = campaign.acts

\* C19: the loop tests the elapsed time before each step; past the budget it runs
\* no further step and returns BudgetExceeded with BugFound = false; the error
\* is nil iff BugFound is true; a bug found by a step has BugStep > 0.
C19_BudgetAndReturn ==
    [](StepWithinBudget /\ ReturnConsistent) /\ [][ExceededReturns]_vars

\* a campaign that ran a step, then found the budget exceeded and returned
C19_Witness ==
    /\ campaign.at = "returned"
    /\ campaign.runner = "RunUntilBugMetrics"
    /\ campaign.err = "ErrBudgetExceeded"
    /\ campaign.clock > campaign.budget
    /\ campaign.steps >= 1

-----------------------------------------------------------------------------
(* schemas: Canonicalize *)

\* bits[0] &= 0x0F on the array the function was handed by value
canonicalizeBitvector4(bits) == <<bits[1] % 16>>

\* a variant that only replaces the empty bitlist
canonicalizeBitlistBitsKeepNull(bits) == IF Len(bits) = 0 THEN <<1>> ELSE bits

canonicalizeBitlistBits(bits) ==
    IF Len(bits) = 0
      THEN <<1>>
      ELSE IF bits[Len(bits)] = 0 THEN <<1>> ELSE bits

\* Canonicalize of each schema: the value returned and the receiver after the call
Canonicalize(schema, b) ==
    CASE schema = "BitvectorOffsetStruct" ->
           [out |-> [b EXCEPT !.BitsA = canonicalizeBitvector4(b.BitsA),
                              !.BitsB = canonicalizeBitvector4(b.BitsB)],
            recv |-> b]
      [] schema = "BitlistOffsetStruct" ->
           [out |-> [b EXCEPT !.BitsA = canonicalizeBitlistBits(b.BitsA),
                              !.BitsB = canonicalizeBitlistBits(b.BitsB)],
            recv |-> b]
      [] schema = "AggregationBitsContainer" ->
           [out |-> [AggregationBits |->
                       IF Len(b.AggregationBits) = 0
                         THEN <<1>>
                         ELSE IF b.AggregationBits[Len(b.AggregationBits)] = 0
                                THEN <<1>> ELSE b.AggregationBits],
            recv |-> b]
      [] schema = "PendingAttestation" ->
           [out |-> IF Len(b.AggregationBits) = 0
                      THEN [b EXCEPT !.AggregationBits = <<1>>]
                      ELSE IF b.AggregationBits[Len(b.AggregationBits)] = 0
                             THEN [b EXCEPT !.AggregationBits = <<1>>]
                             ELSE b,
            recv |-> b]
      [] schema = "HardBitvectorStruct" ->
           [out |-> [b EXCEPT !.Target = <<b.Target[1] % 16>>], recv |-> b]

\* which fields of a schema are Bitvector[4] and which are bitlists
BitvectorFields(schema) ==
    CASE schema = "BitvectorOffsetStruct" -> {"BitsA", "BitsB"}
      [] schema = "HardBitvectorStruct" -> {"Target"}
      [] OTHER -> {}

BitlistFields(schema) ==
    CASE schema = "BitlistOffsetStruct" -> {"BitsA", "BitsB"}
      [] schema \in {"AggregationBitsContainer", "PendingAttestation"} -> {"AggregationBits"}
      [] OTHER -> {}

BitvectorBytes == {<<0>>, <<5>>, <<15>>, <<16>>, <<165>>, <<255>>}

CanonValues(schema) ==
    CASE schema = "BitvectorOffsetStruct" ->
           [Magic : {513}, BitsA : BitvectorBytes, PayloadA : {<<7>>},
            BitsB : BitvectorBytes, PayloadB : {<<>>}]
      [] schema = "BitlistOffsetStruct" ->
           [Magic : {513}, BitsA : BitlistBuffers, Payload : {<<0>>}, BitsB : BitlistBuffers]
      [] schema = "AggregationBitsContainer" -> [AggregationBits : BitlistBuffers]
      [] schema = "PendingAttestation" ->
           [AggregationBits : BitlistBuffers, Data : {<<1, 2>>}, InclusionDelay : {0, 3},
            ProposerIndex : {9}]
      [] schema = "HardBitvectorStruct" ->
           [Magic : {513}, F1 : {<<>>, <<0>>}, Target : BitvectorBytes]

CanonSchemas ==
    {"BitvectorOffsetStruct", "BitlistOffsetStruct", "AggregationBitsContainer",
     "PendingAttestation", "HardBitvectorStruct"}

\* the receiver as it was, the calls made, the receiver now, the value the first
\* call returned and the value a second call on that value returned
CanonInputs ==
    UNION {{[schema |-> n, orig |-> v, recv |-> v, calls |-> 0, out |-> v, again |-> v] :
              v \in CanonValues(n)} : n \in CanonSchemas}

CanonInit == InitFuzzer /\ Idle("canon") /\ canon \in CanonInputs

CallCanonicalize ==
    /\ canon.calls = 0
    /\ LET r == Canonicalize(canon.schema, canon.recv)
       IN  canon' = [canon EXCEPT !.calls = 1, !.out = r.out, !.recv = r.recv]
    /\ UNCHANGED oracleVars /\ Frame("canon")

\* Canonicalize called on the value the first call returned
CallCanonicalizeAgain ==
    /\ canon.calls = 1
    /\ LET r == Canonicalize(canon.schema, canon.out)
       IN  canon' = [canon EXCEPT !.calls = 2, !.again = r.out, !.out = r.recv]
    /\ UNCHANGED oracleVars /\ Frame("canon")

NextCanon == CallCanonicalize \/ CallCanonicalizeAgain

SpecCanon == CanonInit /\ [][NextCanon]_vars

-----------------------------------------------------------------------------
(* C20 *)

\* a bitlist buffer with its sentinel: not empty, last byte not zero
HasSentinel(bits) == Len(bits) > 0 /\ bits[Len(bits)] # 0

\* no padding bit of a bitvector set, no bitlist without its sentinel
IsCanonical(schema, v) ==
    /\ \A f \in BitvectorFields(schema) : v[f][1] < 16
    /\ \A f \in BitlistFields(schema) : HasSentinel(v[f])

\* bit i (from 0) of byte x
BitOf(x, i) == (x \div Pow(2, i)) % 2

\* C20: Canonicalize is the identity on canonical values and idempotent; it
\* clears the four padding bits of each bitvector, replaces each empty or
\* null-sentinel bitlist by 0x01, leaves every other field as it was, and does
\* not change the receiver.
C20_Canonicalize ==
    canon.calls >= 1 =>
        /\ canon.recv = canon.orig
        /\ DOMAIN canon.out = DOMAIN canon.orig
        /\ \A f \in DOMAIN canon.orig :
             CASE f \in BitvectorFields(canon.schema) ->
                    /\ Len(canon.out[f]) = 1
                    /\ \A i \in 0..3 : BitOf(canon.out[f][1], i) = BitOf(canon.orig[f][1], i)
                    /\ \A i \in 4..7 : BitOf(canon.out[f][1], i) = 0
               [] f \in BitlistFields(canon.schema) ->
                    canon.out[f] = IF HasSentinel(canon.orig[f]) THEN canon.orig[f] ELSE <<1>>
               [] OTHER -> canon.out[f] = canon.orig[f]
        /\ IsCanonical(canon.schema, canon.orig) => canon.out = canon.orig
        /\ IsCanonical(canon.schema, canon.out)
        /\ canon.calls = 2 => canon.again = canon.out

\* a multi-byte bitlist without its sentinel next to a canonical one was
\* canonicalised twice
C20_Witness ==
    /\ canon.calls = 2
    /\ canon.schema = "BitlistOffsetStruct"
    /\ Len(canon.orig.BitsA) = 2 /\ canon.orig.BitsA[2] = 0 /\ canon.orig.BitsA[1] # 0
    /\ HasSentinel(canon.orig.BitsB)
    /\ canon.out.BitsA = <<1>>

\* ---------------------------------------------------------------------------
\* tracer: the process-wide trace ring (src/tracer/tracer.go)
\* ---------------------------------------------------------------------------

\* capacity of the ring; the source has 1024 * 1024, scaled so that the ring
\* wraps within the calls explored
BufferSize == 3
\* number of Record calls explored between two Resets
MaxRecords == BufferSize + 1
\* number of Reset calls explored
MaxResets == 1

TraceEntry(cid, val) == [CID |-> cid, Value |-> val]
\* the (CID, Value) pairs handed to Record
TraceInputs == {TraceEntry(1, -1), TraceEntry(2, 5)}
ZeroEntry == TraceEntry(0, 0)

\* the package variables after program start: a zeroed array and index 0
TracerZero == [Buffer |-> [i \in 0..(BufferSize - 1) |-> ZeroEntry], Index |-> 0]

\* a Snapshot that hands out the prefix up to the index even when the index
\* is past the capacity, clamped by the array
tracer_SnapshotUnclamped(t) ==
    [i \in 1..t.Index |-> t.Buffer[(i - 1) % BufferSize]]

\* Record: idx := atomic.AddUint64(&Index, 1); Buffer[(idx-1)%BufferSize] = entry
tracer_Record(t, cid, val) ==
    LET idx == t.Index + 1
    IN [Buffer |-> [t.Buffer EXCEPT ![(idx - 1) % BufferSize] = TraceEntry(cid, val)],
        Index |-> idx]

\* Reset: atomic.StoreUint64(&Index, 0); the array is left as it is
tracer_Reset(t) == [t EXCEPT !.Index = 0]

\* Snapshot: nil for index 0, the whole array past the capacity, else the
\* prefix Buffer[:currentIdx]
tracer_Snapshot(t) ==
    LET currentIdx == t.Index
    IN IF currentIdx = 0 THEN <<>>
       ELSE IF currentIdx > BufferSize
            THEN [i \in 1..BufferSize |-> t.Buffer[i - 1]]
            ELSE [i \in 1..currentIdx |-> t.Buffer[i - 1]]

\* single-threaded use: the package state, the last call and its result, and
\* the history of calls (recorded: the Records since the last Reset; before:
\* how many Records the last Reset discarded; resets: Resets so far)
TracerInit ==
    /\ InitFuzzer /\ Idle("ring")
    /\ ring = [t |-> TracerZero, last |-> "none", snap |-> <<>>,
               recorded |-> <<>>, before |-> 0, resets |-> 0]

CallRecord ==
    /\ Len(ring.recorded) < MaxRecords
    /\ \E e \in TraceInputs :
         ring' = [ring EXCEPT !.t = tracer_Record(ring.t, e.CID, e.Value),
                              !.last = "Record",
                              !.recorded = Append(ring.recorded, e)]
    /\ UNCHANGED oracleVars /\ Frame("ring")

CallReset ==
    /\ ring.resets < MaxResets
    /\ ring' = [ring EXCEPT !.t = tracer_Reset(ring.t),
                            !.last = "Reset",
                            !.before = Len(ring.recorded),
                            !.recorded = <<>>,
                            !.resets = ring.resets + 1]
    /\ UNCHANGED oracleVars /\ Frame("ring")

CallSnapshot ==
    /\ ring.last # "Snapshot"
    /\ ring' = [ring EXCEPT !.last = "Snapshot", !.snap = tracer_Snapshot(ring.t)]
    /\ UNCHANGED oracleVars /\ Frame("ring")

NextTracer == CallRecord \/ CallReset \/ CallSnapshot

SpecTracer == TracerInit /\ [][NextTracer]_vars

\* ---------------------------------------------------------------------------
\* C21
\* ---------------------------------------------------------------------------

MinOf(a, b) == IF a < b THEN a ELSE b

\* C21: in single-threaded use, a Snapshot taken after a Reset and n Record
\* calls has min(n, BufferSize) entries; for n <= BufferSize they are the
\* recorded (CID, Value) pairs in call order, and for n = 0 the snapshot is
\* empty whatever was recorded before the Reset.
C21_SnapshotAfterReset ==
    (ring.last = "Snapshot" /\ ring.resets > 0) =>
        LET n == Len(ring.recorded)
        IN /\ Len(ring.snap) = MinOf(n, BufferSize)
           /\ (n <= BufferSize => ring.snap = ring.recorded)
           /\ (n = 0 => ring.snap = <<>>)

\* a Snapshot of a ring that wrapped, after a Reset that discarded a full ring
C21_Witness ==
    /\ ring.last = "Snapshot"
    /\ ring.resets > 0
    /\ ring.before > BufferSize
    /\ Len(ring.recorded) > BufferSize
    /\ Len(ring.snap) = BufferSize

\* a Snapshot right after a Reset that discarded entries
C21_WitnessEmpty ==
    /\ ring.last = "Snapshot"
    /\ ring.before > 0
    /\ ring.recorded = <<>>
    /\ ring.snap = <<>>

\* ---------------------------------------------------------------------------
\* pyssz.Oracle: the bridge to the py-ssz helper process
\* (src/oracle/pyssz/oracle.go)
\* ---------------------------------------------------------------------------

\* goroutines that call the same Oracle, and calls each of them makes
MaxCallers == 2
MaxCallsEach == 2

Callers == 1..MaxCallers
NoHolder == 0
BridgeOps == {"decode", "schema"}

\* request{Op, ...} as written by the call number seq of goroutine g
Request(g, seq, bridgeOp) == [from |-> g, seq |-> seq, Op |-> bridgeOp]
NoRequest == Request(0, 0, "none")
\* response{OK, ...}; to is the request line the helper answered
Response(req, ok) == [to |-> req, OK |-> ok]
NoResponse == Response(NoRequest, FALSE)

\* a Lock that never waits
lockAcquirableAlways(b) == TRUE

\* o.mu.Lock() returns only when no goroutine holds the mutex
lockAcquirable(b) == b.mu = NoHolder

\* what SchemaCheck and Decode return after a response was received
\* (SchemaCheck: the response's OK; Decode: an error unless OK)
CallResult(bridgeOp, resp) ==
    IF bridgeOp = "schema" THEN IF resp.OK THEN "ok" ELSE "not ok"
    ELSE IF resp.OK THEN "decoded" ELSE "pyssz error"

IdleCaller == [pc |-> "idle", n |-> 0, req |-> NoRequest, got |-> NoResponse,
               result |-> "none"]

\* the Oracle after NewOracle: mutex free, both pipes drained by the ping
BridgeInit ==
    /\ InitFuzzer /\ Idle("bridge")
    /\ bridge = [mu |-> NoHolder, stdin |-> <<>>, stdout |-> <<>>,
                 calls |-> [g \in Callers |-> IdleCaller]]

\* SchemaCheck / Decode up to o.mu.Lock(): the goroutine holds the mutex and
\* has built its request
EnterCall(g) ==
    /\ bridge.calls[g].pc = "idle"
    /\ bridge.calls[g].n < MaxCallsEach
    /\ lockAcquirable(bridge)
    /\ \E bridgeOp \in BridgeOps :
         bridge' = [bridge EXCEPT
                      !.mu = g,
                      !.calls[g] = [pc |-> "locked", n |-> @.n + 1,
                                    req |-> Request(g, @.n + 1, bridgeOp),
                                    got |-> NoResponse, result |-> "none"]]
    /\ UNCHANGED oracleVars /\ Frame("bridge")

\* o.send(req): the request line is written and flushed
Send(g) ==
    /\ bridge.calls[g].pc = "locked"
    /\ bridge' = [bridge EXCEPT !.stdin = Append(@, bridge.calls[g].req),
                                !.calls[g].pc = "sent"]
    /\ UNCHANGED oracleVars /\ Frame("bridge")

\* o.send(req) fails: the call returns the error, the deferred Unlock runs
SendFails(g) ==
    /\ bridge.calls[g].pc = "locked"
    /\ bridge' = [bridge EXCEPT !.mu = NoHolder,
                                !.calls[g].pc = "idle",
                                !.calls[g].result = "send error"]
    /\ UNCHANGED oracleVars /\ Frame("bridge")

\* the helper process: reads one request line, writes one response line
HelperAnswers ==
    /\ bridge.stdin # <<>>
    /\ \E ok \in BOOLEAN :
         bridge' = [bridge EXCEPT !.stdin = Tail(@),
                                  !.stdout = Append(@, Response(Head(bridge.stdin), ok))]
    /\ UNCHANGED oracleVars /\ Frame("bridge")

\* o.recv() and the rest of the call: the line is read and parsed, the
\* result returned, the deferred Unlock runs
Recv(g) ==
    /\ bridge.calls[g].pc = "sent"
    /\ bridge.stdout # <<>>
    /\ LET resp == Head(bridge.stdout)
       IN bridge' = [bridge EXCEPT
                       !.mu = NoHolder,
                       !.stdout = Tail(@),
                       !.calls[g].pc = "idle",
                       !.calls[g].got = resp,
                       !.calls[g].result = CallResult(bridge.calls[g].req.Op, resp)]
    /\ UNCHANGED oracleVars /\ Frame("bridge")

\* o.recv() reads the line but json.Unmarshal rejects it
RecvFails(g) ==
    /\ bridge.calls[g].pc = "sent"
    /\ bridge.stdout # <<>>
    /\ bridge' = [bridge EXCEPT !.mu = NoHolder,
                                !.stdout = Tail(@),
                                !.calls[g].pc = "idle",
                                !.calls[g].result = "recv error"]
    /\ UNCHANGED oracleVars /\ Frame("bridge")

NextBridge ==
    \/ \E g \in Callers : EnterCall(g)
    \/ \E g \in Callers : Send(g)
    \/ \E g \in Callers : SendFails(g)
    \/ HelperAnswers
    \/ \E g \in Callers : Recv(g)
    \/ \E g \in Callers : RecvFails(g)

SpecBridge == BridgeInit /\ [][NextBridge]_vars

\* ---------------------------------------------------------------------------
\* C22
\* ---------------------------------------------------------------------------

\* goroutines between taking the mutex and returning
InCall == {g \in Callers : bridge.calls[g].pc # "idle"}
\* request lines not yet answered plus response lines not yet read
InFlight == Len(bridge.stdin) + Len(bridge.stdout)

\* C22: for every interleaving of Decode and SchemaCheck calls on one Oracle,
\* a call writes its request and reads its response while it holds the mutex:
\* at most one goroutine is between send and receive, at most one request is
\* in flight, and a call that received a response received the one to its
\* own request.
C22_OneRequestInFlight ==
    /\ Cardinality(InCall) <= 1
    /\ \A g \in InCall : bridge.mu = g
    /\ InFlight <= 1
    /\ \A i \in 1..Len(bridge.stdin) : bridge.stdin[i] = bridge.calls[bridge.mu].req
    /\ \A i \in 1..Len(bridge.stdout) : bridge.stdout[i].to = bridge.calls[bridge.mu].req
    /\ \A g \in Callers :
         bridge.calls[g].got # NoResponse => bridge.calls[g].got.to = bridge.calls[g].req

\* goroutine 2 is about to read the answer to its schema request after
\* goroutine 1 completed a decode call
C22_Witness ==
    /\ bridge.calls[1].pc = "idle"
    /\ bridge.calls[1].got # NoResponse
    /\ bridge.calls[1].req.Op = "decode"
    /\ bridge.calls[2].pc = "sent"
    /\ bridge.calls[2].req.Op = "schema"
    /\ Len(bridge.stdout) = 1

\* ---------------------------------------------------------------------------
\* rl.EncodingContext: the flat action space (src/rl/action_space.go)
\* ---------------------------------------------------------------------------

\* longest list of domains a context is built from
MaxDomains == 2

\* domains.Domain, as far as NewEncodingContext reads it
Domain(fieldName, aspects) == [FieldName |-> fieldName, Aspects |-> aspects]

\* EncodingContextAction; Tag is copied from the bucket and read by neither
\* lookup, so it is left out
EncodingContextAction(fieldName, aspectID, bucketID) ==
    [FieldName |-> fieldName, AspectID |-> aspectID, BucketID |-> bucketID]
ZeroAction == EncodingContextAction("", "", "")

\* fmt.Sprintf("%s_%s_%s", action.FieldName, action.AspectID, action.BucketID)
actionKey(action) ==
    action.FieldName \o "_" \o action.AspectID \o "_" \o action.BucketID

\* the actions of one aspect, of one domain and of a list of domains, in the
\* order of the three nested loops
aspectActions(fieldName, aspect) ==
    [b \in 1..Len(aspect.Buckets) |->
        EncodingContextAction(fieldName, aspect.ID, aspect.Buckets[b].ID)]

RECURSIVE domainActions(_, _, _)
domainActions(fieldName, aspects, a) ==
    IF a > Len(aspects) THEN <<>>
    ELSE aspectActions(fieldName, aspects[a]) \o domainActions(fieldName, aspects, a + 1)

RECURSIVE listActions(_, _)
listActions(doms, d) ==
    IF d > Len(doms) THEN <<>>
    ELSE domainActions(doms[d].FieldName, doms[d].Aspects, 1) \o listActions(doms, d + 1)

\* ctx.actionToIndex[key] = actionIndex over the actions in order: a key
\* written more than once keeps the index written last
indexActions(actions) ==
    LET keyAt(k) == actionKey(actions[k])
        lastWrite(key) ==
            CHOOSE k \in 1..Len(actions) :
                /\ keyAt(k) = key
                /\ \A j \in (k + 1)..Len(actions) : keyAt(j) # key
    IN [key \in {keyAt(k) : k \in 1..Len(actions)} |-> lastWrite(key) - 1]

NewEncodingContext(doms) ==
    LET indexToAction == listActions(doms, 1)
    IN [Actions |-> indexToAction,
        actionToIndex |-> indexActions(indexToAction),
        indexToAction |-> indexToAction]

ActionCount(ec) == Len(ec.Actions)

\* Go slices count from 0, sequences from 1
GetActionByIndex(ec, index) ==
    IF index < 0 \/ index >= Len(ec.indexToAction)
      THEN [action |-> ZeroAction, err |-> "action index out of bounds"]
      ELSE [action |-> ec.indexToAction[index + 1], err |-> "nil"]

GetIndexByAction(ec, action) ==
    LET key == actionKey(action)
    IN IF key \notin DOMAIN ec.actionToIndex
         THEN [index |-> -1, err |-> "action not found in encoding context"]
         ELSE [index |-> ec.actionToIndex[key], err |-> "nil"]

\* the lists a context is built from: hand-written domains of one aspect, and
\* what the analyzer returns for two of the repository's schemas
FieldNames == {"f", "f_a"}
AspectIDs == {"b", "a_b"}
BucketLists ==
    {<<>>, <<Bucket("Zero", 0, 0)>>, <<Bucket("Zero", 0, 0), Bucket("One", 1, 1)>>,
     <<Bucket("Zero", 0, 0), Bucket("Zero", 0, 0)>>}
SmallDomains ==
    {Domain(f, <<Aspect(a, bs)>>) : f \in FieldNames, a \in AspectIDs, bs \in BucketLists}
AnalyzerLists ==
    {GetDomains(TypeOf([name |-> n, max |-> 16])) :
        n \in {"BooleanOffsetStruct", "PSSZBoolBench"}}
DomainLists == SeqsUpTo(SmallDomains, MaxDomains) \cup AnalyzerLists

NoContext == [Actions |-> <<>>, actionToIndex |-> <<>>, indexToAction |-> <<>>]

ActionSpaceInit ==
    /\ InitFuzzer /\ Idle("actionSpace")
    /\ \E doms \in DomainLists :
         actionSpace = [doms |-> doms, built |-> FALSE, ctx |-> NoContext,
                        last |-> "none", count |-> 0, index |-> 0,
                        byIndex |-> [action |-> ZeroAction, err |-> "nil"],
                        byAction |-> [index |-> -1, err |-> "nil"]]

CallNewEncodingContext ==
    /\ ~actionSpace.built
    /\ actionSpace' = [actionSpace EXCEPT !.built = TRUE,
                                          !.last = "NewEncodingContext",
                                          !.ctx = NewEncodingContext(actionSpace.doms)]
    /\ UNCHANGED oracleVars /\ Frame("actionSpace")

CallActionCount ==
    /\ actionSpace.built /\ actionSpace.last = "NewEncodingContext"
    /\ actionSpace' = [actionSpace EXCEPT !.last = "ActionCount",
                                          !.count = ActionCount(actionSpace.ctx)]
    /\ UNCHANGED oracleVars /\ Frame("actionSpace")

\* indices from one below the range to one above it
CallGetActionByIndex ==
    /\ actionSpace.last = "ActionCount"
    /\ \E i \in -1..(actionSpace.count + 1) :
         actionSpace' = [actionSpace EXCEPT
                           !.last = "GetActionByIndex",
                           !.index = i,
                           !.byIndex = GetActionByIndex(actionSpace.ctx, i)]
    /\ UNCHANGED oracleVars /\ Frame("actionSpace")

\* the action just returned is looked up again
CallGetIndexByAction ==
    /\ actionSpace.last = "GetActionByIndex"
    /\ actionSpace.byIndex.err = "nil"
    /\ actionSpace' = [actionSpace EXCEPT
                         !.last = "GetIndexByAction",
                         !.byAction = GetIndexByAction(actionSpace.ctx,
                                                       actionSpace.byIndex.action)]
    /\ UNCHANGED oracleVars /\ Frame("actionSpace")

NextActionSpace ==
    \/ CallNewEncodingContext
    \/ CallActionCount
    \/ CallGetActionByIndex
    \/ CallGetIndexByAction

SpecActionSpace == ActionSpaceInit /\ [][NextActionSpace]_vars

\* ---------------------------------------------------------------------------
\* C24
\* ---------------------------------------------------------------------------

RECURSIVE SumSeq(_, _)
SumSeq(s, k) == IF k > Len(s) THEN 0 ELSE s[k] + SumSeq(s, k + 1)

\* number of (field, aspect, bucket) triples of a list of domains
TripleCount(doms) ==
    SumSeq([d \in 1..Len(doms) |->
              SumSeq([a \in 1..Len(doms[d].Aspects) |->
                        Len(doms[d].Aspects[a].Buckets)], 1)], 1)

CountIsTriples ==
    actionSpace.last = "ActionCount" => actionSpace.count = TripleCount(actionSpace.doms)

OutsideIsError ==
    actionSpace.last = "GetActionByIndex" =>
        ((actionSpace.index < 0 \/ actionSpace.index >= actionSpace.count)
            <=> actionSpace.byIndex.err # "nil")

IndexRoundTrip ==
    actionSpace.last = "GetIndexByAction" =>
        /\ actionSpace.byAction.err = "nil"
        /\ actionSpace.byAction.index = actionSpace.index

\* C24: for a context built from any list of domains, ActionCount() is the
\* number of (field, aspect, bucket) triples, GetIndexByAction(GetActionByIndex(i))
\* = i for every i in 0..ActionCount()-1, and GetActionByIndex answers an
\* error for every index outside that range.
C24_ActionIndexing == CountIsTriples /\ OutsideIsError /\ IndexRoundTrip

\* the part of C24 that holds for every list: the count and the range check
C24_CountAndRange == CountIsTriples /\ OutsideIsError

\* the keys of the actions are pairwise different
DistinctKeys ==
    Cardinality(DOMAIN actionSpace.ctx.actionToIndex) = Len(actionSpace.ctx.Actions)

\* the round trip holds for the lists whose actions have different keys, the
\* analyzer's lists among them
C24_RoundTripDistinctKeys == DistinctKeys => IndexRoundTrip

\* two triples that differ and share a key: the lookup of the first returns
\* the index of the second
C24_UnderscoreCollision ==
    /\ actionSpace.last = "GetIndexByAction"
    /\ actionSpace.byAction.index # actionSpace.index
    /\ actionSpace.byIndex.action #
         actionSpace.ctx.indexToAction[actionSpace.byAction.index + 1]

\* ---------------------------------------------------------------------------
\* tracer under concurrent callers
\* ---------------------------------------------------------------------------

\* goroutines calling Record, Reset and Snapshot at the same time
Goroutines == {1, 2}

IdleGoroutine == [pc |-> "idle", idx |-> 0, entry |-> ZeroEntry, epoch |-> 0,
                  len |-> 0, unwritten |-> {}]

\* slot written by the Record call that claimed index idx
SlotOf(idx) == (idx - 1) % BufferSize

\* t: the package variables; g: the call each goroutine is in; written[s]:
\* slot s holds an entry stored whole by a Record call that claimed its index
\* after the most recent Reset; records, resets: calls made so far
TracerRaceInit ==
    /\ InitFuzzer /\ Idle("ring")
    /\ ring = [t |-> TracerZero,
               g |-> [p \in Goroutines |-> IdleGoroutine],
               written |-> [s \in 0..(BufferSize - 1) |-> FALSE],
               records |-> 0, resets |-> 0]

\* goroutines that claimed an index and have not finished the store
Outstanding == {p \in Goroutines : ring.g[p].pc \in {"claimed", "half"}}

\* Record, line 30: idx := atomic.AddUint64(&Index, 1)
RecordClaim(p) ==
    /\ ring.g[p].pc = "idle"
    /\ ring.records < MaxRecords
    /\ \E e \in TraceInputs :
         ring' = [ring EXCEPT !.t.Index = @ + 1,
                              !.records = @ + 1,
                              !.g[p] = [IdleGoroutine EXCEPT !.pc = "claimed",
                                                             !.idx = ring.t.Index + 1,
                                                             !.entry = e,
                                                             !.epoch = ring.resets]]
    /\ UNCHANGED oracleVars /\ Frame("ring")

\* Record, line 32: the assignment of the two-word struct is a plain store;
\* one of its words lands first, in either order
RecordStoreFirst(p) ==
    /\ ring.g[p].pc = "claimed"
    /\ LET s == SlotOf(ring.g[p].idx)
       IN \E cidFirst \in BOOLEAN :
            ring' = [ring EXCEPT
                       !.t.Buffer[s] =
                           IF cidFirst THEN [@ EXCEPT !.CID = ring.g[p].entry.CID]
                                       ELSE [@ EXCEPT !.Value = ring.g[p].entry.Value],
                       !.written[s] = FALSE,
                       !.g[p].pc = "half"]
    /\ UNCHANGED oracleVars /\ Frame("ring")

\* Record, line 32: the other word lands and Record returns
RecordStoreRest(p) ==
    /\ ring.g[p].pc = "half"
    /\ LET s == SlotOf(ring.g[p].idx)
           e == ring.g[p].entry
           slot == ring.t.Buffer[s]
           stored == IF slot.CID = e.CID THEN [slot EXCEPT !.Value = e.Value]
                                         ELSE [slot EXCEPT !.CID = e.CID]
       IN ring' = [ring EXCEPT
                     !.t.Buffer[s] = stored,
                     !.written[s] =
                         /\ stored = e
                         /\ ring.g[p].epoch = ring.resets
                         /\ \A q \in Goroutines \ {p} :
                              ~(ring.g[q].pc = "half" /\ SlotOf(ring.g[q].idx) = s),
                     !.g[p].pc = "idle"]
    /\ UNCHANGED oracleVars /\ Frame("ring")

\* Reset: atomic.StoreUint64(&Index, 0)
RaceReset(p) ==
    /\ ring.g[p].pc = "idle"
    /\ ring.resets < MaxResets
    /\ ring' = [ring EXCEPT !.t = tracer_Reset(ring.t),
                            !.resets = @ + 1,
                            !.written = [s \in 0..(BufferSize - 1) |-> FALSE],
                            !.g[p] = IdleGoroutine]
    /\ UNCHANGED oracleVars /\ Frame("ring")

\* Snapshot: the index is loaded and the slice over the array returned;
\* unwritten: the slots of the slice that hold no whole entry at that moment
RaceSnapshot(p) ==
    /\ ring.g[p].pc = "idle"
    /\ LET n == Len(tracer_Snapshot(ring.t))
       IN ring' = [ring EXCEPT
                     !.g[p] = [IdleGoroutine EXCEPT
                                 !.pc = "snapshot",
                                 !.len = n,
                                 !.unwritten = {s \in 0..(n - 1) : ~ring.written[s]}]]
    /\ UNCHANGED oracleVars /\ Frame("ring")

\* the caller is done with the slice
RaceSnapshotDone(p) ==
    /\ ring.g[p].pc = "snapshot"
    /\ ring' = [ring EXCEPT !.g[p] = IdleGoroutine]
    /\ UNCHANGED oracleVars /\ Frame("ring")

NextTracerRace ==
    \/ \E p \in Goroutines : RecordClaim(p)
    \/ \E p \in Goroutines : RecordStoreFirst(p)
    \/ \E p \in Goroutines : RecordStoreRest(p)
    \/ \E p \in Goroutines : RaceReset(p)
    \/ \E p \in Goroutines : RaceSnapshot(p)
    \/ \E p \in Goroutines : RaceSnapshotDone(p)

SpecTracerRace == TracerRaceInit /\ [][NextTracerRace]_vars

\* ---------------------------------------------------------------------------
\* C30
\* ---------------------------------------------------------------------------

\* every slot of a returned snapshot holds a whole entry of a Record call made
\* after the most recent Reset
SnapshotsWhole ==
    \A p \in Goroutines : ring.g[p].pc = "snapshot" => ring.g[p].unwritten = {}

\* two Record calls in progress write different slots
DistinctSlots ==
    \A p, q \in Outstanding : p # q => SlotOf(ring.g[p].idx) # SlotOf(ring.g[q].idx)

\* C30: with Record, Reset and Snapshot running concurrently, a snapshot only
\* returns entries stored whole by a Record call made after the most recent
\* Reset (never a slot whose index is claimed and whose entry is not stored
\* yet), and two Record calls in progress never write the same slot while
\* fewer than BufferSize records are outstanding.
C30_ConcurrentSnapshot ==
    /\ SnapshotsWhole
    /\ (Cardinality(Outstanding) < BufferSize => DistinctSlots)

\* without any Reset: a Record call that claimed index 1 is still storing when
\* another call, BufferSize indices later, writes the same slot
C30_LappedSlot ==
    /\ ring.resets = 0
    /\ \E p, q \in Outstanding : p # q /\ SlotOf(ring.g[p].idx) = SlotOf(ring.g[q].idx)

\* a snapshot taken between the claim of index 1 and the store of its entry
C30_ClaimedSlotExposed ==
    \E p, q \in Goroutines :
        /\ ring.g[p].pc = "snapshot" /\ 0 \in ring.g[p].unwritten
        /\ ring.g[q].pc = "claimed" /\ ring.g[q].idx = 1
        /\ ring.resets = 0

\* a Reset between two claims: both Record calls write slot 0
C30_SameSlotAfterReset ==
    /\ ring.g[1].pc = "claimed" /\ ring.g[2].pc = "claimed"
    /\ ring.g[1].idx = 1 /\ ring.g[2].idx = 1

\* ---------------------------------------------------------------------------
\* C23
\* ---------------------------------------------------------------------------

\* the step in which Execute returns to its caller
ExecuteReturns == op = "Execute" /\ pc # "idle" /\ pc' = "idle" /\ ~propagated'

\* what the coverage calculation leaves behind for the trace of the call
CoverageAccounted ==
    /\ lastNewCoverage' = Cardinality(NewlySeen(trace'))
    /\ newCoverageFound' = (Cardinality(NewlySeen(trace')) > 0)
    /\ globalSeenCIDs' = globalSeenCIDs \cup {trace'[i] : i \in 1..Len(trace')}

\* C23: after every Execute call, whatever its outcome, NewCoverage() is the
\* number of coverage ids of the call's trace not seen since the last Reset,
\* newCoverageFound is true exactly when that number is positive, and the ids
\* are in the cumulative seen set.
C23_CoverageEveryOutcome == [][ExecuteReturns => CoverageAccounted]_vars

\* the part of C23 that holds: the calls that end at the decode or the
\* re-encode (decode error, panic, marshal error) and the calls that reach
\* the byte comparison with equal roots
C23_CoverageOnFullPath ==
    [][(ExecuteReturns /\ (pc \in {"unmarshal", "marshal"}
                             \/ (pc = "orighash" /\ sut'.origHash = "ok"
                                   /\ sut'.origHashVal = sut'.reHashVal)))
          => CoverageAccounted]_vars

\* a call that returns from inside the round-trip checks with ids in its trace
\* that were never seen: they stay unseen and NewCoverage() keeps 0
C23_EarlyReturnSkipsCoverage ==
    /\ op = "Execute" /\ pc = "idle" /\ ~propagated
    /\ sut.reUnmarshal = "err"
    /\ trace # <<>>
    /\ globalSeenCIDs = {}
    /\ lastNewCoverage = 0

\* ---------------------------------------------------------------------------
\* C25
\* ---------------------------------------------------------------------------

\* Execute has returned after both roots were computed
ComparedCall ==
    op = "Execute" /\ pc = "idle" /\ ~propagated /\ sut.origHash = "ok"

\* the bug kinds of the byte-level comparison
ByteLevelKinds ==
    {"BitvectorDirtyPadding", "NullBitlist", "TrailingBytes", "UnionTrailing",
     "RoundTripMismatch"} \cap BugKindNames

\* C25: within one oracle invocation the byte comparison of the re-encoding
\* with the input is classified before the comparison of the roots: an input
\* whose re-encoding differs is classified by a byte-level kind, and
\* SemanticMismatch is reported only when the re-encoding equals the input.
C25_BytesBeforeRoots ==
    ComparedCall =>
        /\ (signature.BugKinds["SemanticMismatch"] > 0 => sut.reencoded = sszBytes)
        /\ (sut.reencoded # sszBytes =>
              \E k \in ByteLevelKinds : signature.BugKinds[k] > 0)

\* the order the code has: the roots are compared first, and RoundTripMismatch
\* is reported only when they are equal
C25_RootsBeforeBytes ==
    ComparedCall =>
        /\ (signature.BugKinds["RoundTripMismatch"] > 0 =>
              sut.origHashVal = sut.reHashVal)
        /\ (sut.origHashVal # sut.reHashVal =>
              \/ signature.BugKinds["SemanticMismatch"] > 0
              \/ signature.BugKinds["BitvectorDirtyPadding"] > 0)

\* a re-encoding that differs from the input, reported as SemanticMismatch
C25_MismatchReportedSemantic ==
    /\ ComparedCall
    /\ sut.reencoded # sszBytes
    /\ signature.BugKinds["SemanticMismatch"] = 1
    /\ signature.BugKinds["RoundTripMismatch"] = 0

\* ---------------------------------------------------------------------------
\* C26
\* ---------------------------------------------------------------------------

\* declared width of the Bitvector4 field Target
BitvectorWidth == 4

\* the decoded value has a bit set at or above the declared width of its
\* bitvector field
BitBeyondWidth(v) == v.Target \div (2 ^ BitvectorWidth) # 0

ReportedDirtyPadding ==
    /\ op = "Execute" /\ pc = "idle" /\ ~propagated
    /\ signature.BugKinds["BitvectorDirtyPadding"] > 0

\* C26: BitvectorDirtyPadding is reported only when the decoded value has a
\* non-zero bit beyond the declared width of a Bitvector(N) field; a byte
\* >= 0xC0 in a plain byte field never makes a mismatch BitvectorDirtyPadding.
C26_DirtyPaddingOnlyBitvector ==
    ReportedDirtyPadding => BitBeyondWidth(sut.decoded)

\* what the code guarantees: the kind is reported exactly for the values the
\* byte heuristics flag, after a mismatch of the roots or of the bytes
C26_DirtyPaddingIsHeuristic ==
    ReportedDirtyPadding =>
        /\ detectDirtyPadding(sut.decoded)
        /\ (sut.origHashVal # sut.reHashVal \/ sut.reencoded # sszBytes)

\* a clean bitvector and a data byte 0xC0: the mismatch is reported as
\* BitvectorDirtyPadding
C26_DataByteFlagged ==
    /\ ReportedDirtyPadding
    /\ sut.decoded.Target = 1
    /\ sut.decoded.Data[1] = 192

\* ---------------------------------------------------------------------------
\* VerifyMultiproof called with arbitrary arguments
\* ---------------------------------------------------------------------------

\* generalized indices handed in: 0, the root, inner nodes and their children
AnyIndices == 0..5
\* the 32-byte value of the leaves and witnesses handed in
SomeChunk == Chunk(<<1>>)

\* any index list (duplicates, ancestors, the root and 0 included), any number
\* of leaves and of witnesses, a root that fits or one that does not
VerifyInputs ==
    [indices : SeqsUpTo(AnyIndices, MaxLeaves),
     root : {hashConcat(SomeChunk, SomeChunk), ForeignChunk},
     stage : {"proved"},
     required : {<<>>},
     hashes : SeqsUpTo({SomeChunk}, MaxLeaves),
     leaves : SeqsUpTo({SomeChunk}, MaxLeaves),
     tampered : {0}, res : {"none"}]

VerifyInit == InitFuzzer /\ Idle("proof") /\ proof \in VerifyInputs

NextVerify == CallVerifyMultiproof

SpecVerify == VerifyInit /\ [][NextVerify]_vars

\* ---------------------------------------------------------------------------
\* C27
\* ---------------------------------------------------------------------------

\* C27: VerifyMultiproof returns a (bool, error) result for every root,
\* witness list, leaf list and index list (lists with gindex 1, with an
\* ancestor of another index, with duplicates or with indices <= 0 included)
\* and never panics.
C27_VerifyNeverPanics ==
    proof.stage = "verified" => proof.res \in {"true", "false", "err"}

\* the part of C27 that holds: lists of positive indices none of which is an
\* ancestor of, or equal to, another
NoAncestorPairs(indices) ==
    \A i, j \in 1..Len(indices) :
        i # j => indices[i] \notin ({indices[j]} \cup pathFrom(getParent(indices[j])) \cup {1})
C27_DisjointNeverPanics ==
    (proof.stage = "verified" /\ 0 \notin Range(proof.indices)
       /\ NoAncestorPairs(proof.indices))
        => proof.res \in {"true", "false", "err"}

\* index out of range: the root listed together with a node below it
C27_PanicOnAncestor ==
    /\ proof.stage = "verified"
    /\ proof.indices = <<4, 1>>
    /\ proof.res = "panic"

\* makeslice: the only index is 0
C27_PanicOnZero ==
    /\ proof.stage = "verified"
    /\ proof.indices = <<0>>
    /\ proof.res = "panic"

\* a call with well-formed arguments that verifies
C27_VerifiesTrue ==
    /\ proof.stage = "verified"
    /\ proof.indices = <<2>>
    /\ proof.res = "true"

\* ---------------------------------------------------------------------------
\* C28
\* ---------------------------------------------------------------------------

\* the sum of the counts stored in BugKinds
RECURSIVE SumKinds(_, _)
SumKinds(sig, kinds) ==
    IF kinds = {} THEN 0
    ELSE LET k == CHOOSE x \in kinds : TRUE
         IN  sig.BugKinds[k] + SumKinds(sig, kinds \ {k})

\* exactly one of the three counters is 1 and the other two are 0
ExactlyOneOutcome(sig) ==
    /\ {sig.RoundtripSuccessCount, sig.NonBugErrorCount, sig.BugFoundCount} = {0, 1}
    /\ sig.RoundtripSuccessCount + sig.NonBugErrorCount + sig.BugFoundCount = 1

\* Execute has returned, to its caller or into ExecuteWithObject
ExecuteHasReturned == Returned("Execute") \/ pc = "withobject"

\* C28: in every RuntimeSignature of Execute, ExecuteWithObject and
\* PreflightChecks, BugFoundCount is the sum of the counts in BugKinds, and a
\* signature returned by Execute has exactly one of RoundtripSuccessCount,
\* NonBugErrorCount and BugFoundCount equal to 1, the other two 0.
C28_SignatureCounts ==
    /\ signature.BugFoundCount = SumKinds(signature, BugKindNames)
    /\ (ExecuteHasReturned => ExactlyOneOutcome(signature))

\* ExecuteWithObject returned a signature with the bug of Execute and a bug
\* of the reference checks
C28_Witness ==
    /\ Returned("ExecuteWithObject")
    /\ signature.BugFoundCount = 2
    /\ signature.BugKinds["Panic"] = 1
    /\ SumKinds(signature, BugKindNames) = 2

\* ---------------------------------------------------------------------------
\* C29
\* ---------------------------------------------------------------------------

\* one fuzzer driven through Execute, ExecuteWithObject and Reset, the SUT
\* instrumented; the object handed to ExecuteWithObject is nil or a value
\* without the fastssz methods, for which the reference checks end after the
\* root (the checks never write the coverage fields)
ExecuteWithObjectTraced ==
    \E b \in ByteStrings,
       o \in {NilObject, [kind |-> "bare", refMarshalOK |-> TRUE, refRootOK |-> TRUE]} :
        Begin("ExecuteWithObject", b, o, "ok")

NextCoverage ==
    \/ Next
    \/ ExecuteWithObjectTraced
    \/ ExecuteWithObjectContinue
    \/ RefSizeSSZ
    \/ RefMarshal
    \/ RefHashRoot

SpecCoverage == Init /\ [][NextCoverage]_vars

\* TotalCoverage() is the size of the cumulative seen set
CoverageIsSeenCount == currentCoverage = Cardinality(globalSeenCIDs)

\* a step that is no Reset (the seen set keeps its ids) does not decrease
\* TotalCoverage()
CoverageMonotone ==
    globalSeenCIDs \subseteq globalSeenCIDs' => currentCoverage' >= currentCoverage

\* C29: after any sequence of Execute, ExecuteWithObject and Reset calls,
\* TotalCoverage() is the number of distinct coverage ids in the cumulative
\* seen set; it never decreases between two Resets and is 0 right after Reset.
C29_TotalCoverage ==
    /\ [](CoverageIsSeenCount /\ (globalSeenCIDs = {} => currentCoverage = 0))
    /\ [][CoverageMonotone]_vars

\* coverage grown over two calls, then a call that returns early
C29_Witness ==
    /\ Returned("Execute")
    /\ currentCoverage = MaxCID
    /\ lastNewCoverage = 1
    /\ globalSeenCIDs = 1..MaxCID

====
